---- MODULE Spec2Model ----
(***************************************************************************)
(* cryfa: FASTA compaction plus encryption (EnDecrypto.cpp, cryfa.cpp).    *)
(*                                                                         *)
(* Bytes are the integers 0..255 and strings are sequences of bytes.  A    *)
(* text file is kept as its complete ('\n'-terminated) lines plus the      *)
(* unterminated rest after the last '\n' (empty for a file that ends in    *)
(* '\n').                                                                  *)
(*                                                                         *)
(* Code of the repository that is not among the sources (pack.h, def.h,    *)
(* fcn.h) is modelled from the specification's description of it; the      *)
(* C++ library generators (minstd_rand0, mt19937), 64/32-bit unsigned      *)
(* arithmetic and the block cipher are modelled at reduced width.          *)
(***************************************************************************)
EXTENDS Integers, Sequences, FiniteSets, TLC

(***************************************************************************)
(* Bounds of the model.                                                    *)
(***************************************************************************)
\* longest byte string the shuffler is called on by itself
MaxCtxLen == 4
\* symbols beyond one full group in the strings the symbol codec is called on
MaxExtra == 1
\* longest sequence the base codec is called on by itself
MaxSeqLen == 4
\* largest number of worker threads a run is started with (option -t)
MaxThreads == 4

(***************************************************************************)
(* Program constants.                                                      *)
(***************************************************************************)
\* def.h: size of a block in bytes (reduced, so that short files span blocks)
BLOCK_SIZE == 8
\* def.h: version numbers of the watermark
VERSION_CRYFA == 1
RELEASE_CRYFA == 0
\* categories of alphabet sizes and their key lengths
MAX_C5 == 39
MAX_C4 == 15
MAX_C3 == 6
MID_C3 == 5
MIN_C3 == 4
C2 == 3
C1 == 2
KEYLEN_C5 == 3
KEYLEN_C4 == 2
KEYLEN_C3 == 3
KEYLEN_C2 == 5
KEYLEN_C1 == 7
\* AES::DEFAULT_KEYLENGTH and AES::BLOCKSIZE (reduced)
KEYLENGTH == 2
BLOCKSIZE == 2
\* u32 and u64 arithmetic wraps at these moduli (reduced from 2^32, 2^64)
U32 == 65536
U64 == 1048576

(***************************************************************************)
(* Strings.                                                                *)
(***************************************************************************)
Max(a, b) == IF a > b THEN a ELSE b
Min(a, b) == IF a < b THEN a ELSE b

\* std::to_string of a non-negative integer: its decimal digits in ASCII
RECURSIVE to_string(_)
to_string(n) ==
    IF n < 10 THEN <<48 + n>> ELSE to_string(n \div 10) \o <<48 + (n % 10)>>

IsDigits(s) == Len(s) > 0 /\ \A k \in 1..Len(s) : s[k] \in 48..57

\* std::stoull of a string of decimal digits
RECURSIVE stoull(_)
stoull(s) ==
    IF Len(s) = 0 THEN 0
    ELSE 10 * stoull(SubSeq(s, 1, Len(s) - 1)) + (s[Len(s)] - 48)

\* the concatenation of a sequence of strings
RECURSIVE Concat(_)
Concat(ss) == IF Len(ss) = 0 THEN <<>> ELSE Head(ss) \o Concat(Tail(ss))

\* index of the first b in s at or after position p, or 0
RECURSIVE Find(_, _, _)
Find(s, b, p) ==
    IF p > Len(s) THEN 0 ELSE IF s[p] = b THEN p ELSE Find(s, b, p + 1)

\* the complete lines of a byte string (each up to a '\n', which is dropped)
RECURSIVE LinesOf(_)
LinesOf(s) ==
    LET k == Find(s, 10, 1) IN
    IF k = 0 THEN <<>>
    ELSE <<SubSeq(s, 1, k - 1)>> \o LinesOf(SubSeq(s, k + 1, Len(s)))

\* what follows the last '\n' of a byte string
RECURSIVE RestOf(_)
RestOf(s) ==
    LET k == Find(s, 10, 1) IN
    IF k = 0 THEN s ELSE RestOf(SubSeq(s, k + 1, Len(s)))

\* a text file: complete lines and the unterminated rest
TextFile(s) == [lines |-> LinesOf(s), rest |-> RestOf(s)]

\* "THR=" (def.h), the prefix of the line that separates chunks in temp files
THR_ID_HDR == <<84, 72, 82, 61>>

\* "#cryfa v<VERSION>.<RELEASE>\n"
Watermark ==
    <<35, 99, 114, 121, 102, 97, 32, 118>> \o to_string(VERSION_CRYFA)
        \o <<46>> \o to_string(RELEASE_CRYFA) \o <<10>>

(***************************************************************************)
(* Scan of a FASTA file: gatherHdrBs.                                      *)
(***************************************************************************)
\* the elements of a set of integers in increasing order
RECURSIVE SortedSeq(_)
SortedSeq(S) ==
    IF S = {} THEN <<>>
    ELSE LET m == CHOOSE x \in S : \A y \in S : x <= y
         IN  <<m>> \o SortedSeq(S \ {m})

\* line[0] == '>' (line[0] of an empty line is '\0')
IsHdrLine(line) == Len(line) > 0 /\ line[1] = 62

\* max length of the lines of bases; only lines that getline reads as good count
MaxBLen(f) ==
    LET RECURSIVE mx(_)
        mx(k) == IF k = 0 THEN 0
                 ELSE IF IsHdrLine(f.lines[k]) THEN mx(k - 1)
                 ELSE Max(Len(f.lines[k]), mx(k - 1))
    IN  mx(Len(f.lines))

\* the characters that occur in header lines, '>' excluded, in increasing order
GatherHeaders(f) ==
    LET hChars == UNION {{f.lines[k][j] : j \in 1..Len(f.lines[k])} :
                           k \in {x \in 1..Len(f.lines) : IsHdrLine(f.lines[x])}}
    IN  SortedSeq({c \in hChars : c \in 32..126 /\ c # 62})

\* BlockLine = BLOCK_SIZE / maxBLen, and 2 when that is 0 (maxBLen > 0)
BlockLineFA(maxBLen) ==
    LET q == BLOCK_SIZE \div maxBLen IN IF q = 0 THEN 2 ELSE q

\* the choice with category 5 taken from MAX_C4 characters on
PackerOf_from(headers) ==
    LET n == Len(headers) IN
    IF n > MAX_C5
    THEN LET Hdrs == SubSeq(headers, n - MAX_C5 + 1, n)
         IN  [name |-> "packLargeHdr_3to2", keyLen |-> KEYLEN_C5, bytes |-> 2,
              alphabet |-> Hdrs \o <<Hdrs[Len(Hdrs)] + 1>>, large |-> TRUE]
    ELSE IF n >= MAX_C4
    THEN [name |-> "pack_3to2", keyLen |-> KEYLEN_C5, bytes |-> 2,
          alphabet |-> headers, large |-> FALSE]
    ELSE IF n > MAX_C3
    THEN [name |-> "pack_2to1", keyLen |-> KEYLEN_C4, bytes |-> 1,
          alphabet |-> headers, large |-> FALSE]
    ELSE IF n = MAX_C3 \/ n = MID_C3 \/ n = MIN_C3
    THEN [name |-> "pack_3to1", keyLen |-> KEYLEN_C3, bytes |-> 1,
          alphabet |-> headers, large |-> FALSE]
    ELSE IF n = C2
    THEN [name |-> "pack_5to1", keyLen |-> KEYLEN_C2, bytes |-> 1,
          alphabet |-> headers, large |-> FALSE]
    ELSE IF n = C1
    THEN [name |-> "pack_7to1", keyLen |-> KEYLEN_C1, bytes |-> 1,
          alphabet |-> headers, large |-> FALSE]
    ELSE [name |-> "pack_1to1", keyLen |-> 1, bytes |-> 1,
          alphabet |-> headers, large |-> FALSE]

(***************************************************************************)
(* Choice of the header packer by the number of different characters:      *)
(* compressFA.  Hdrs is the alphabet the hash table is built from.         *)
(***************************************************************************)
PackerOf(headers) ==
    LET n == Len(headers) IN
    IF n > MAX_C5
    THEN LET Hdrs == SubSeq(headers, n - MAX_C5 + 1, n)
         IN  [name |-> "packLargeHdr_3to2", keyLen |-> KEYLEN_C5, bytes |-> 2,
              alphabet |-> Hdrs \o <<Hdrs[Len(Hdrs)] + 1>>, large |-> TRUE]
    ELSE IF n > MAX_C4
    THEN [name |-> "pack_3to2", keyLen |-> KEYLEN_C5, bytes |-> 2,
          alphabet |-> headers, large |-> FALSE]
    ELSE IF n > MAX_C3
    THEN [name |-> "pack_2to1", keyLen |-> KEYLEN_C4, bytes |-> 1,
          alphabet |-> headers, large |-> FALSE]
    ELSE IF n = MAX_C3 \/ n = MID_C3 \/ n = MIN_C3
    THEN [name |-> "pack_3to1", keyLen |-> KEYLEN_C3, bytes |-> 1,
          alphabet |-> headers, large |-> FALSE]
    ELSE IF n = C2
    THEN [name |-> "pack_5to1", keyLen |-> KEYLEN_C2, bytes |-> 1,
          alphabet |-> headers, large |-> FALSE]
    ELSE IF n = C1
    THEN [name |-> "pack_7to1", keyLen |-> KEYLEN_C1, bytes |-> 1,
          alphabet |-> headers, large |-> FALSE]
    ELSE [name |-> "pack_1to1", keyLen |-> 1, bytes |-> 1,
          alphabet |-> headers, large |-> FALSE]

\* the unpacker with the first MAX_C5 characters as its alphabet
UnpackerOf_first(headers) ==
    LET n == Len(headers) IN
    IF n > MAX_C5
    THEN LET decHeaders == SubSeq(headers, 1, MAX_C5)
         IN  [name |-> "unpackLarge_read2B", keyLen |-> KEYLEN_C5, bytes |-> 2,
              alphabet |-> decHeaders \o <<decHeaders[Len(decHeaders)] + 1>>,
              large |-> TRUE]
    ELSE IF n > MAX_C4
    THEN [name |-> "unpack_read2B", keyLen |-> KEYLEN_C5, bytes |-> 2,
          alphabet |-> headers, large |-> FALSE]
    ELSE [name |-> "unpack_read1B", bytes |-> 1, alphabet |-> headers,
          large |-> FALSE,
          keyLen |-> IF n > MAX_C3 THEN KEYLEN_C4
                     ELSE IF n = MAX_C3 \/ n = MID_C3 \/ n = MIN_C3 THEN KEYLEN_C3
                     ELSE IF n = C2 THEN KEYLEN_C2
                     ELSE IF n = C1 THEN KEYLEN_C1
                     ELSE 1]

\* the unpacker decompressFA chooses from the header alphabet of the stream
UnpackerOf(headers) ==
    LET n == Len(headers) IN
    IF n > MAX_C5
    THEN LET decHeaders == SubSeq(headers, n - MAX_C5 + 1, n)
         IN  [name |-> "unpackLarge_read2B", keyLen |-> KEYLEN_C5, bytes |-> 2,
              alphabet |-> decHeaders \o <<decHeaders[Len(decHeaders)] + 1>>,
              large |-> TRUE]
    ELSE IF n > MAX_C4
    THEN [name |-> "unpack_read2B", keyLen |-> KEYLEN_C5, bytes |-> 2,
          alphabet |-> headers, large |-> FALSE]
    ELSE [name |-> "unpack_read1B", bytes |-> 1, alphabet |-> headers,
          large |-> FALSE,
          keyLen |-> IF n > MAX_C3 THEN KEYLEN_C4
                     ELSE IF n = MAX_C3 \/ n = MID_C3 \/ n = MIN_C3 THEN KEYLEN_C3
                     ELSE IF n = C2 THEN KEYLEN_C2
                     ELSE IF n = C1 THEN KEYLEN_C1
                     ELSE 1]

(***************************************************************************)
(* Symbol codec (pack.h).                                                  *)
(***************************************************************************)
RECURSIVE Pow(_, _)
Pow(a, k) == IF k = 0 THEN 1 ELSE a * Pow(a, k - 1)

\* index (from 0) of c in the sorted alphabet; the escape digit when absent
IndexIn(alphabet, c) ==
    LET k == Find(alphabet, c, 1) IN IF k = 0 THEN Len(alphabet) - 1 ELSE k - 1

\* v written in big-endian base 256 in exactly m bytes
RECURSIVE BigEndian(_, _)
BigEndian(v, m) ==
    IF m = 0 THEN <<>> ELSE BigEndian(v \div 256, m - 1) \o <<v % 256>>

\* the packed form of one string: groups of keyLen symbols, a short last group
\* padded with the smallest symbol; the large variant writes the symbols that
\* are not in the alphabet after the code of their group
RECURSIVE PackSymbols(_, _)
PackSymbols(pk, str) ==
    IF Len(str) = 0 THEN <<>>
    ELSE LET K == pk.keyLen
             A == Len(pk.alphabet)
             n == Min(K, Len(str))
             d(k) == IF k <= n THEN IndexIn(pk.alphabet, str[k]) ELSE 0
             RECURSIVE val(_)
             val(k) == IF k = 0 THEN 0 ELSE val(k - 1) * A + d(k)
             lits == SelectSeq(SubSeq(str, 1, n),
                               LAMBDA c : Find(pk.alphabet, c, 1) = 0)
         IN  BigEndian(val(K), pk.bytes) \o (IF pk.large THEN lits ELSE <<>>)
                 \o PackSymbols(pk, SubSeq(str, n + 1, Len(str)))

\* the K digits of v in base A, most significant first
RECURSIVE Digits(_, _, _)
Digits(v, A, K) ==
    IF K = 0 THEN <<>> ELSE Digits(v \div A, A, K - 1) \o <<v % A>>

\* Unpacking of one string from text at position i up to the 254 that ends it.
\* The result is [ok, out, i]: i is the position of the 254; ok is FALSE when
\* the read leaves the text or a code is outside the table.
RECURSIVE UnpackSymbols(_, _, _)
UnpackSymbols(upk, text, i) ==
    IF i > Len(text) THEN [ok |-> FALSE, out |-> <<>>, i |-> i]
    ELSE IF text[i] = 254 THEN [ok |-> TRUE, out |-> <<>>, i |-> i]
    ELSE IF i + upk.bytes - 1 > Len(text) THEN [ok |-> FALSE, out |-> <<>>, i |-> i]
    ELSE LET A == Len(upk.alphabet)
             v == IF upk.bytes = 1 THEN text[i] ELSE 256 * text[i] + text[i + 1]
             ds == Digits(v, A, upk.keyLen)
             isX(k) == upk.large /\ ds[k] = A - 1
             nX == Cardinality({k \in 1..upk.keyLen : isX(k)})
             \* the k-th symbol: a literal that follows the code, or a table entry
             sym(k) == IF isX(k)
                       THEN text[i + upk.bytes - 1
                                 + Cardinality({j \in 1..k : isX(j)})]
                       ELSE upk.alphabet[ds[k] + 1]
             next == i + upk.bytes + nX
         IN  IF v >= Pow(A, upk.keyLen) \/ next - 1 > Len(text)
             THEN [ok |-> FALSE, out |-> <<>>, i |-> i]
             ELSE LET r == UnpackSymbols(upk, text, next)
                  IN  [ok |-> r.ok, i |-> r.i,
                       out |-> [k \in 1..upk.keyLen |-> sym(k)] \o r.out]

(***************************************************************************)
(* DNA base codec (pack.h): triplets over A, C, N, G, T.                   *)
(***************************************************************************)
\* index of a base in A, C, N, G, T; 5 (X) for any other symbol
DnaIdx(c) ==
    CASE c = 65 -> 0 [] c = 67 -> 1 [] c = 78 -> 2 [] c = 71 -> 3 [] c = 84 -> 4
      [] OTHER -> 5

DnaSym(d) == <<65, 67, 78, 71, 84>>[d + 1]

\* the packed form of a sequence: v = 25 d1 + 5 d2 + d3 for each triplet; a
\* triplet with an X is preceded by 255 and followed by its literal symbols;
\* the missing positions of a short last triplet are X
RECURSIVE packSeq_3to1(_)
packSeq_3to1(seq) ==
    IF Len(seq) = 0 THEN <<>>
    ELSE LET n == Min(3, Len(seq))
             d(k) == IF k <= n THEN DnaIdx(seq[k]) ELSE 5
             v == 25 * d(1) + 5 * d(2) + d(3)
             lits == SelectSeq(SubSeq(seq, 1, n), LAMBDA c : DnaIdx(c) = 5)
         IN  (IF 5 \in {d(1), d(2), d(3)} THEN <<255, v>> ELSE <<v>>) \o lits
                 \o packSeq_3to1(SubSeq(seq, n + 1, Len(seq)))

\* lookup table of the triplets with an X: the first triplet, in the order
\* of the table, that has the code v (<<>> when there is none)
DnaXTable(v) ==
    LET T == {t \in (0..5) \X (0..5) \X (0..5) :
                 5 \in {t[1], t[2], t[3]} /\ 25 * t[1] + 5 * t[2] + t[3] = v}
    IN  IF T = {} THEN <<>>
        ELSE CHOOSE t \in T : \A u \in T :
                 36 * t[1] + 6 * t[2] + t[3] <= 36 * u[1] + 6 * u[2] + u[3]

\* the symbols of the triplet ds whose literals start at text[j]; an X whose
\* literal would be the 254 that ends the sequence is padding.  [ok, out, i],
\* i the position after the last literal read.
RECURSIVE UnpackTriplet(_, _, _, _)
UnpackTriplet(ds, k, text, j) ==
    IF k > 3 THEN [ok |-> TRUE, out |-> <<>>, i |-> j]
    ELSE IF ds[k] # 5
    THEN LET r == UnpackTriplet(ds, k + 1, text, j)
         IN  [ok |-> r.ok, out |-> <<DnaSym(ds[k])>> \o r.out, i |-> r.i]
    ELSE IF j > Len(text) THEN [ok |-> FALSE, out |-> <<>>, i |-> j]
    ELSE IF text[j] = 254 THEN UnpackTriplet(ds, k + 1, text, j)
    ELSE LET r == UnpackTriplet(ds, k + 1, text, j + 1)
         IN  [ok |-> r.ok, i |-> r.i,
              out |-> <<IF text[j] = 252 THEN 10 ELSE text[j]>> \o r.out]

\* Unpacking of a sequence from text at position i up to the 254 that ends it;
\* 252 stands for the line feed between the lines of the sequence.
RECURSIVE unpackSeqFA_3to1(_, _)
unpackSeqFA_3to1(text, i) ==
    IF i > Len(text) THEN [ok |-> FALSE, out |-> <<>>, i |-> i]
    ELSE IF text[i] = 254 THEN [ok |-> TRUE, out |-> <<>>, i |-> i]
    ELSE LET esc == text[i] = 255
             v == IF esc THEN (IF i < Len(text) THEN text[i + 1] ELSE 255)
                  ELSE text[i]
             ds == IF esc THEN DnaXTable(v)
                   ELSE IF v < 125 THEN Digits(v, 5, 3) ELSE <<>>
         IN  IF ds = <<>> THEN [ok |-> FALSE, out |-> <<>>, i |-> i]
             ELSE LET t == UnpackTriplet(ds, 1, text, IF esc THEN i + 2 ELSE i + 1)
                      r == IF t.ok THEN unpackSeqFA_3to1(text, t.i)
                           ELSE [ok |-> FALSE, out |-> <<>>, i |-> t.i]
                  IN  [ok |-> r.ok, out |-> t.out \o r.out, i |-> r.i]

(***************************************************************************)
(* Random numbers: the static minstd_rand0 engine behind my_srand and      *)
(* my_rand.  x' = 16807 x mod (2^31 - 1), computed by Schrage's method.    *)
(***************************************************************************)
\* randomEngine().seed(s): the state of the engine after seeding
my_srand(e, s) ==
    IF s % 2147483647 = 0 THEN 1 ELSE s % 2147483647

\* randomEngine()(): the next state, which is also the number drawn
EngineNext(x) ==
    LET t == 16807 * (x % 127773) - 2836 * (x \div 127773)
    IN  IF t > 0 THEN t ELSE t + 2147483647

\* my_rand(): the number drawn minus randomEngine().min()
my_rand(x) == x - 1

\* seed = sum of pass[i] * my_rand(), i from the last character down, or
\* with an extra my_rand() added per character (buildKey, buildIV).
\* [seed, e]: the sum and the state the engine is left in.
RECURSIVE SeedSum(_, _, _, _)
SeedSum(pass, i, e, twice) ==
    IF i = 0 THEN [seed |-> 0, e |-> e]
    ELSE LET e1 == EngineNext(e)
             e2 == IF twice THEN EngineNext(e1) ELSE e1
             term == pass[i] * (my_rand(e1) % U64)
                         + (IF twice THEN my_rand(e2) % U64 ELSE 0)
             r == SeedSum(pass, i - 1, e2, twice)
         IN  [seed |-> (term + r.seed) % U64, e |-> r.e]

\* passDigitsMult: the product of the characters of the password (u64)
RECURSIVE PassDigitsMult(_)
PassDigitsMult(pass) ==
    IF Len(pass) = 0 THEN 1
    ELSE (PassDigitsMult(SubSeq(pass, 1, Len(pass) - 1)) * pass[Len(pass)]) % U64

\* un_shuffleSeedGen without its my_srand: the draws go on from state e
un_shuffleSeedGen_noSrand(e, pass) == SeedSum(pass, Len(pass), e, FALSE)

\* the critical section of un_shuffleSeedGen run with the engine in state e
un_shuffleSeedGen(e, pass) ==
    SeedSum(pass, Len(pass),
            my_srand(e, (20543 * (PassDigitsMult(pass) % U32) + 81647) % U32),
            FALSE)

\* std::shuffle(first, last, g) with g seeded with seed: for i = 2..n the
\* i-th element is swapped with one at a drawn position in 1..i
RECURSIVE ShuffleFrom(_, _, _)
ShuffleFrom(s, i, x) ==
    IF i > Len(s) THEN s
    ELSE LET x1 == EngineNext(x)
             j == 1 + (x1 % i)
         IN  ShuffleFrom([s EXCEPT ![i] = s[j], ![j] = s[i]], i + 1, x1)

Shuffle(s, seed) == ShuffleFrom(s, 2, my_srand(1, seed % U32))

\* shufflePkd: the context shuffled with the shared seed
shufflePkd(context, seed) == Shuffle(context, seed)

\* unshufflePkd that takes the byte for position p from the p-th shuffled
\* position, as shufflePkd does
unshufflePkd_forward(text, seed) ==
    LET vPos == Shuffle([k \in 1..Len(text) |-> k - 1], seed)
    IN  [p \in 1..Len(text) |-> text[vPos[p] + 1]]

\* unshufflePkd: the positions 0..size-1 are shuffled with the same seed and
\* the k-th shuffled byte goes to the k-th of these positions
unshufflePkd(text, seed) ==
    LET vPos == Shuffle([k \in 1..Len(text) |-> k - 1], seed)
    IN  [p \in 1..Len(text) |->
            text[CHOOSE k \in 1..Len(text) : vPos[k] = p - 1]]

(***************************************************************************)
(* Key, initialisation vector and cipher.                                  *)
(***************************************************************************)
\* the n bytes drawn from a generator seeded with seed, the last byte first
RECURSIVE DrawBytes(_, _)
DrawBytes(x, n) ==
    IF n = 0 THEN <<>>
    ELSE LET x1 == EngineNext(x) IN DrawBytes(x1, n - 1) \o <<(x1 % 256) % 255>>

\* buildKey without its my_srand: the draws go on from state e
buildKey_noSrand(e, pwd) ==
    LET r == SeedSum(pwd, Len(pwd), e, TRUE)
    IN  [key |-> DrawBytes(my_srand(1, r.seed % (U32 - 1)), KEYLENGTH), e |-> r.e]

\* buildKey: [key, e], e the state my_srand/my_rand leave the engine in
buildKey(e, pwd) ==
    LET r == SeedSum(pwd, Len(pwd),
                     my_srand(e, (24593 * (pwd[1] * pwd[3]) + 49157) % U32), TRUE)
    IN  [key |-> DrawBytes(my_srand(1, r.seed % (U32 - 1)), KEYLENGTH), e |-> r.e]

\* buildIV seeded as buildKey is
buildIV_keySeed(e, pass) ==
    LET r == SeedSum(pass, Len(pass),
                     my_srand(e, (24593 * (pass[1] * pass[3]) + 49157) % U32), TRUE)
    IN  [iv |-> DrawBytes(my_srand(1, r.seed % (U32 - 1)), BLOCKSIZE), e |-> r.e]

\* buildIV
buildIV(e, pass) ==
    LET r == SeedSum(pass, Len(pass),
                     my_srand(e, (7919 * pass[3] * pass[6] + 75653) % U32), TRUE)
    IN  [iv |-> DrawBytes(my_srand(1, r.seed % (U32 - 1)), BLOCKSIZE), e |-> r.e]

\* the block cipher under a key, and its inverse: a substitution of each byte
EncBlock(key, b) ==
    [j \in 1..BLOCKSIZE |-> (b[j] + key[((j - 1) % KEYLENGTH) + 1]) % 256]
DecBlock(key, b) ==
    [j \in 1..BLOCKSIZE |-> (b[j] + 256 - key[((j - 1) % KEYLENGTH) + 1]) % 256]

\* chaining of the blocks of p after the block prev
RECURSIVE CbcEncBlocks(_, _, _)
CbcEncBlocks(key, prev, p) ==
    IF Len(p) = 0 THEN <<>>
    ELSE LET c == EncBlock(key, [j \in 1..BLOCKSIZE |-> (p[j] + prev[j]) % 256])
         IN  c \o CbcEncBlocks(key, c, SubSeq(p, BLOCKSIZE + 1, Len(p)))

RECURSIVE CbcDecBlocks(_, _, _)
CbcDecBlocks(key, prev, c) ==
    IF Len(c) = 0 THEN <<>>
    ELSE LET b == SubSeq(c, 1, BLOCKSIZE)
             d == DecBlock(key, b)
         IN  [j \in 1..BLOCKSIZE |-> (d[j] + 256 - prev[j]) % 256]
                 \o CbcDecBlocks(key, b, SubSeq(c, BLOCKSIZE + 1, Len(c)))

\* CBC encryption with the padding of StreamTransformationFilter: 1..BLOCKSIZE
\* bytes that each hold their number
cbcEnc(key, iv, plain) ==
    LET padLen == BLOCKSIZE - (Len(plain) % BLOCKSIZE)
    IN  CbcEncBlocks(key, iv, plain \o [j \in 1..padLen |-> padLen])

\* CBC decryption: [ok, out]; ok is FALSE when the length or the padding is
\* not that of a ciphertext
cbcDec(key, iv, cipher) ==
    IF Len(cipher) = 0 \/ Len(cipher) % BLOCKSIZE # 0
    THEN [ok |-> FALSE, out |-> <<>>]
    ELSE LET p == CbcDecBlocks(key, iv, cipher)
             padLen == p[Len(p)]
         IN  IF padLen \in 1..BLOCKSIZE
                  /\ \A j \in (Len(p) - padLen + 1)..Len(p) : p[j] = padLen
             THEN [ok |-> TRUE, out |-> SubSeq(p, 1, Len(p) - padLen)]
             ELSE [ok |-> FALSE, out |-> <<>>]

(***************************************************************************)
(* Reading a text file line by line.  A position is the number of lines    *)
(* already read; the unterminated rest counts as one more unit.            *)
(***************************************************************************)
\* the position at which peek() gives EOF
EndPos(f) == Len(f.lines) + (IF f.rest = <<>> THEN 0 ELSE 1)

\* in.ignore(LARGE_NUMBER, '\n') done k times from position p
Ignore(f, p, k) == Min(p + k, EndPos(f))

\* the lines that getline reads as good among the next k from position p
GoodLines(f, p, k) == SubSeq(f.lines, p + 1, Min(p + k, Len(f.lines)))

(***************************************************************************)
(* Packing of a block of lines: the body of the loop of packFA.            *)
(***************************************************************************)
\* seq with its last character removed, packed and closed by 254
PackPrevSeq(seq) ==
    IF seq = <<>> THEN <<>>
    ELSE packSeq_3to1(SubSeq(seq, 1, Len(seq) - 1)) \o <<254>>

\* the context after the lines from the k-th on, given the context and the
\* sequence gathered so far
RECURSIVE PackLines(_, _, _, _, _)
PackLines(pk, lines, k, context, seq) ==
    IF k > Len(lines) THEN context \o PackPrevSeq(seq)
    ELSE LET line == lines[k] IN
         IF IsHdrLine(line)
         THEN PackLines(pk, lines, k + 1,
                        context \o PackPrevSeq(seq) \o <<253>>
                            \o PackSymbols(pk, Tail(line)) \o <<254>>,
                        <<>>)
         ELSE IF line = <<>>
         THEN PackLines(pk, lines, k + 1, context, seq \o <<252>>)
         ELSE PackLines(pk, lines, k + 1, context, seq \o line \o <<252>>)

\* PackBlock that stops one line before the end of the block
PackBlock_short(pk, f, p, blockLine) ==
    PackLines(pk, GoodLines(f, p, blockLine - 1), 1, <<>>, <<>>)

\* the context of the block that starts at position p
PackBlock(pk, f, p, blockLine) ==
    PackLines(pk, GoodLines(f, p, blockLine), 1, <<>>, <<>>)

\* SkipLines that also skips a block for the worker itself
SkipLines_own(n, blockLine) == n * blockLine

\* the number of lines a worker skips after its block: (n_threads-1)*BlockLine
SkipLines(n, blockLine) == (n - 1) * blockLine

\* the size of the context, then the context
WithSize(context) == <<253>> \o to_string(Len(context)) \o <<254>> \o context

\* PkRecord with the thread-id line after the chunk instead of before it
PkRecord_markerLast(t, context) ==
    WithSize(context) \o <<10>> \o THR_ID_HDR \o to_string(t) \o <<10>>

\* what a worker appends to its temp file for one chunk
PkRecord(t, context) ==
    THR_ID_HDR \o to_string(t) \o <<10>> \o WithSize(context) \o <<10>>

(***************************************************************************)
(* Joining of the per-thread files: the loops of compressFA (into the      *)
(* packed file) and of decompressFA (to cout, a line feed after each       *)
(* non-empty part).  A file that does not exist reads as nothing.          *)
(***************************************************************************)
Absent == <<-1>>

\* Lines of file t from position p up to its next "THR=t" line or its end.
\* [out, p, eof]
RECURSIVE JoinPart(_, _, _, _, _)
JoinPart(f, t, p, out, prevLineNotThrID) ==
    IF p >= Len(f.lines)
    THEN [out |-> out, p |-> EndPos(f), eof |-> TRUE, some |-> prevLineNotThrID]
    ELSE IF f.lines[p + 1] = THR_ID_HDR \o to_string(t)
    THEN [out |-> out, p |-> p + 1, eof |-> FALSE, some |-> prevLineNotThrID]
    ELSE JoinPart(f, t, p + 1,
                  out \o (IF prevLineNotThrID THEN <<10>> ELSE <<>>)
                      \o f.lines[p + 1],
                  TRUE)

\* one round over the files t..n-1, then further rounds until file 0 is at eof
RECURSIVE JoinFrom(_, _, _, _, _, _)
JoinFrom(files, n, t, pos, eof0, lfAfter) ==
    IF t = n
    THEN IF eof0 THEN <<>> ELSE JoinFrom(files, n, 0, pos, eof0, lfAfter)
    ELSE LET r == IF files[t] = Absent
                  THEN [out |-> <<>>, p |-> 0, eof |-> FALSE, some |-> FALSE]
                  ELSE JoinPart(TextFile(files[t]), t, pos[t], <<>>, FALSE)
         IN  r.out \o (IF lfAfter /\ r.some THEN <<10>> ELSE <<>>)
                 \o JoinFrom(files, n, t + 1, [pos EXCEPT ![t] = r.p],
                             IF t = 0 THEN r.eof ELSE eof0, lfAfter)

JoinFiles(files, n, lfAfter) ==
    JoinFrom(files, n, 0, [t \in 0..(n - 1) |-> 0], FALSE, lfAfter)

\* what compressFA writes before the chunks
FileHeader(headers, disable) ==
    <<127, IF ~disable THEN 128 ELSE 129>> \o headers \o <<254>>

(***************************************************************************)
(* Reading the decrypted file byte by byte.  A position is the number of   *)
(* bytes before it; a stream that failed stays failed.                     *)
(***************************************************************************)
\* the longest prefix of s made of decimal digits (what stoull converts)
RECURSIVE DigitPrefix(_)
DigitPrefix(s) ==
    IF Len(s) = 0 \/ s[1] \notin 48..57 THEN <<>>
    ELSE <<s[1]>> \o DigitPrefix(Tail(s))

\* while (in.get(c) && c != 254) str += c, from position pos.
\* [str, pos, fail]: pos is after the 254; fail when the end was reached
ReadTo254(dec, pos) ==
    LET k == Find(dec, 254, pos + 1) IN
    IF k = 0 THEN [str |-> SubSeq(dec, pos + 1, Len(dec)), pos |-> Len(dec),
                   fail |-> TRUE]
    ELSE [str |-> SubSeq(dec, pos + 1, k - 1), pos |-> k, fail |-> FALSE]

\* the head of the packed file as decompressFA reads it: a byte skipped, the
\* shuffle byte, the header characters up to 254
ParseFileHeader(dec) ==
    LET r == ReadTo254(dec, 2)
    IN  [shuffled |-> dec[2] = 128, headers |-> r.str, pos |-> r.pos,
         fail |-> r.fail]

\* a stream just opened; c = -1: the variable c holds no value yet
NoStream ==
    [pos |-> 0, c |-> -1, fail |-> FALSE, abort |-> FALSE, found |-> FALSE,
     beg |-> 0, size |-> 0]

\* in.get(c); if (c == 253) { the size up to 254 is read } from the state st
\* of a stream: [pos, c, fail] and the chunk [beg, size] found last.
\* abort: stoull found no number and threw.
GetChunkHdr(dec, st) ==
    LET got == ~st.fail /\ st.pos < Len(dec)
        c == IF got THEN dec[st.pos + 1] ELSE st.c
        pos == IF got THEN st.pos + 1 ELSE st.pos
        r == IF got THEN ReadTo254(dec, pos)
             ELSE [str |-> <<>>, pos |-> pos, fail |-> TRUE]
    IN  IF c # 253
        THEN [st EXCEPT !.pos = pos, !.c = c, !.fail = ~got, !.found = FALSE]
        ELSE IF DigitPrefix(r.str) = <<>>
        THEN [st EXCEPT !.pos = r.pos, !.fail = TRUE, !.abort = TRUE,
                        !.found = FALSE]
        ELSE [st EXCEPT !.pos = r.pos, !.fail = r.fail,
                        !.c = IF r.fail THEN r.str[Len(r.str)] ELSE 254,
                        !.beg = r.pos, !.size = stoull(DigitPrefix(r.str)),
                        !.found = TRUE]

\* the loop of decompressFA that gives a chunk to each thread from t on:
\* the sequence of the chunks given, [t, beg, size], and whether stoull threw
RECURSIVE Dispatch(_, _, _, _)
Dispatch(dec, st, t, n) ==
    IF t = n THEN [jobs |-> <<>>, abort |-> FALSE]
    ELSE LET h == GetChunkHdr(dec, st)
             \* in.seekg(offset, cur) after the thread is started
             pos == IF h.found /\ ~h.fail THEN h.pos + h.size ELSE h.pos
             job == IF h.found THEN <<[t |-> t, beg |-> h.beg, size |-> h.size]>>
                    ELSE <<>>
         IN  IF h.abort THEN [jobs |-> <<>>, abort |-> TRUE]
             ELSE IF ~h.fail /\ pos < Len(dec) /\ dec[pos + 1] = 252
             THEN [jobs |-> job, abort |-> FALSE]
             ELSE LET r == Dispatch(dec, [h EXCEPT !.pos = pos], t + 1, n)
                  IN  [jobs |-> job \o r.jobs, abort |-> r.abort]

\* for (u = chunkSize; u--;) { in.get(c); decText += c; } after seekg(begPos):
\* a get that fails leaves c as it was.  [text, c, fail]
ReadChunk(dec, c, beg, size) ==
    LET avail == IF beg >= Len(dec) THEN <<>>
                 ELSE SubSeq(dec, beg + 1, Min(beg + size, Len(dec)))
        last == IF avail = <<>> THEN c ELSE avail[Len(avail)]
    IN  [text |-> avail \o [k \in 1..(size - Len(avail)) |-> last],
         c |-> last, fail |-> Len(avail) < size]

\* the loop of unpackHS after a chunk: n_threads times seekg(endPos) and a
\* look for the size of a chunk there
RECURSIVE ScanNext(_, _, _, _)
ScanNext(dec, st, endPos, k) ==
    IF k = 0 \/ st.abort THEN st
    ELSE LET h == GetChunkHdr(dec, IF st.fail THEN st
                                   ELSE [st EXCEPT !.pos = endPos])
         IN  ScanNext(dec, h, IF h.found THEN h.beg + h.size ELSE endPos, k - 1)

(***************************************************************************)
(* Unpacking of a chunk: the do-while loop of unpackHS.                    *)
(***************************************************************************)
\* the lines written for the text from position i on.  [ok, out]: ok is
\* FALSE when the loop reads outside the text
RECURSIVE UnpackChunk(_, _, _)
UnpackChunk(upk, text, i) ==
    IF i > Len(text) THEN [ok |-> FALSE, out |-> <<>>]
    ELSE LET r == IF text[i] = 253 THEN UnpackSymbols(upk, text, i + 1)
                  ELSE unpackSeqFA_3to1(text, i)
             line == (IF text[i] = 253 THEN <<62>> ELSE <<>>) \o r.out \o <<10>>
         IN  IF ~r.ok THEN [ok |-> FALSE, out |-> <<>>]
             ELSE IF r.i + 1 = Len(text) + 1 THEN [ok |-> TRUE, out |-> line]
             ELSE LET q == UnpackChunk(upk, text, r.i + 1)
                  IN  [ok |-> q.ok, out |-> line \o q.out]

(***************************************************************************)
(* Inputs of a run.                                                        *)
(***************************************************************************)
\* ">h\nACG\n"
F_one == <<62, 104, 10, 65, 67, 71, 10>>
\* ">h\nAC\nACG\n>h\nACG\n": three blocks of two lines
F_blocks == <<62, 104, 10, 65, 67, 10, 65, 67, 71, 10, 62, 104, 10, 65, 67, 71, 10>>
\* ">h\nAC\nGT": the last line has no line feed
F_noLF == <<62, 104, 10, 65, 67, 10, 71, 84>>
\* ">h\nA C\n": a space in a line of bases
F_space == <<62, 104, 10, 65, 32, 67, 10>>
\* ">h\nANAGCTNTNGCNNNCCTGANA\n": the bases pack to "\nTHR=0\n"
F_thr ==
    <<62, 104, 10, 65, 78, 65, 71, 67, 84, 78, 84, 78, 71, 67, 78, 78, 78,
      67, 67, 84, 71, 65, 78, 65, 10>>
\* "hello\n": neither FASTA nor FASTQ
F_text == <<104, 101, 108, 108, 111, 10>>

\* ">h\nACGTA\nG": blocks of one line, and a last line without line feed
F_tail == <<62, 104, 10, 65, 67, 71, 84, 65, 10, 71>>

\* ">h\nAC\nANAGCTNTNGCNNNCCTTANA\n": the second block packs to "\nTHR=1\n"
F_thr1 ==
    <<62, 104, 10, 65, 67, 10, 65, 78, 65, 71, 67, 84, 78, 84, 78, 71, 67, 78,
      78, 78, 67, 67, 84, 84, 65, 78, 65, 10>>

Files == {F_one, F_blocks, F_noLF, F_space, F_thr, F_text, F_tail, F_thr1}

\* "passw0rd", "abcdefgh", and "short" (fewer than 8 characters)
Passwords ==
    { <<112, 97, 115, 115, 119, 48, 114, 100>>,
      <<97, 98, 99, 100, 101, 102, 103, 104>>,
      <<115, 104, 111, 114, 116>> }

Threads == 0..(MaxThreads - 1)

\* fileType (fcn.h): the first character of the first non-empty line
fileType(f) ==
    LET all == f.lines \o (IF f.rest = <<>> THEN <<>> ELSE <<f.rest>>)
        ne == SelectSeq(all, LAMBDA l : l # <<>>)
    IN  IF ne = <<>> THEN "n"
        ELSE IF ne[1][1] = 62 THEN "A"
        ELSE IF ne[1][1] = 64 THEN "Q"
        ELSE "n"

(***************************************************************************)
(* State.                                                                  *)
(***************************************************************************)
VARIABLES
    inFile,               \* bytes of the FASTA file given to compaction
    pass,                 \* bytes of the key file
    disable_shuffle,      \* option -s
    d_flag,               \* option -d of the run
    n_threads,            \* option -t of the run
    pc,                   \* where the main thread is
    exitCode,             \* exit status of the process, -1 while it runs
    coutBuf,              \* written to cout, not yet flushed
    stdout,               \* what has reached standard output
    cryFile,              \* the file given to decryption
    pckdFile,             \* the packed file (PCKD_FILENAME), or Absent
    decFile,              \* the decrypted file (DEC_FILENAME), or Absent
    pkFile,               \* per-thread packed files (PK_FILENAME + t)
    upkFile,              \* per-thread unpacked files (UPK_FILENAME + t)
    headers,              \* characters of the headers (compressFA/decompressFA)
    BlockLine,            \* number of lines of a block
    shuffled,             \* decompressFA: the stream says it is shuffled
    wpc,                  \* where each worker is
    wpos,                 \* pack worker: position in the input (lines read)
    win,                  \* unpack worker: its stream on the decrypted file and its chunk
    wctx,                 \* worker: context (packFA) or decText (unpackHS)
    wseed,                \* worker: seed of un_shuffleSeedGen
    mutx,                 \* thread that holds the mutex, or -1
    shufflingInProgress,
    shufflingMsgs,        \* verbose: lines "Shuffling..." or "Unshuffling..." on cerr
    engine,               \* state of the static minstd_rand0
    seed_shared,
    keyBuilt,             \* the run has built a key (buildKey was called)
    outs,                 \* output of the finished compactions, by thread count
    call                  \* a function called on its own: its name, arguments, result

vars ==
    <<inFile, pass, disable_shuffle, d_flag, n_threads, pc, exitCode, coutBuf,
      stdout, cryFile, pckdFile, decFile, pkFile, upkFile, headers, BlockLine,
      shuffled, wpc, wpos, win, wctx, wseed, mutx, shufflingInProgress,
      shufflingMsgs,
      engine, seed_shared, keyBuilt, outs, call>>

\* no function has been called on its own
NoCall == [fn |-> "none"]

\* variables of the inputs and the history
inputVars == <<inFile, pass, disable_shuffle, outs, call>>
\* variables of the workers
workerVars == <<wpc, wpos, win, wctx, wseed>>
\* variables shared between workers
sharedVars == <<mutx, shufflingInProgress, shufflingMsgs, engine, seed_shared>>
\* files
fileVars == <<cryFile, pckdFile, decFile, pkFile, upkFile>>

\* the state of the process when a run starts (construction of EnDecrypto)
ProcessStart ==
    /\ exitCode' = -1
    /\ coutBuf' = <<>>
    /\ stdout' = <<>>
    /\ headers' = <<>>
    /\ BlockLine' = 0
    /\ shuffled' = FALSE
    /\ wpc' = [t \in Threads |-> "none"]
    /\ wpos' = [t \in Threads |-> 0]
    /\ win' = [t \in Threads |-> NoStream]
    /\ wctx' = [t \in Threads |-> <<>>]
    /\ wseed' = [t \in Threads |-> 0]
    /\ mutx' = -1
    /\ shufflingInProgress' = TRUE
    /\ shufflingMsgs' = 0
    /\ engine' = 1
    /\ seed_shared' = 0
    /\ keyBuilt' = FALSE

Init ==
    /\ inFile \in Files
    /\ pass \in Passwords
    /\ disable_shuffle \in BOOLEAN
    /\ d_flag = FALSE
    /\ n_threads = 1
    /\ pc = "idle"
    /\ exitCode = -1
    /\ coutBuf = <<>>
    /\ stdout = <<>>
    /\ cryFile = <<>>
    /\ pckdFile = Absent
    /\ decFile = Absent
    /\ pkFile = [t \in Threads |-> Absent]
    /\ upkFile = [t \in Threads |-> Absent]
    /\ headers = <<>>
    /\ BlockLine = 0
    /\ shuffled = FALSE
    /\ wpc = [t \in Threads |-> "none"]
    /\ wpos = [t \in Threads |-> 0]
    /\ win = [t \in Threads |-> NoStream]
    /\ wctx = [t \in Threads |-> <<>>]
    /\ wseed = [t \in Threads |-> 0]
    /\ mutx = -1
    /\ shufflingInProgress = TRUE
    /\ shufflingMsgs = 0
    /\ engine = 1
    /\ seed_shared = 0
    /\ keyBuilt = FALSE
    /\ outs = [n \in 1..MaxThreads |-> Absent]
    /\ call = NoCall

(***************************************************************************)
(* End of the process.                                                     *)
(***************************************************************************)
\* return from main or exit(code): the buffer of cout is flushed
Exit(code) ==
    /\ pc' = "exited"
    /\ exitCode' = code
    /\ stdout' = stdout \o coutBuf
    /\ coutBuf' = <<>>

\* std::terminate after an exception nobody catches: abort(), nothing flushed
Abort ==
    /\ pc' = "exited"
    /\ exitCode' = 134
    /\ stdout' = stdout
    /\ coutBuf' = <<>>

\* undefined behaviour: the process is killed (SIGFPE, SIGSEGV, SIGABRT), or
\* it goes on and ends with bytes on standard output that mean nothing
Undefined ==
    \E code \in {0, 134, 136, 139} : \E junk \in {<<>>, <<0>>} :
        /\ pc' = "exited"
        /\ exitCode' = code
        /\ stdout' = stdout \o junk
        /\ coutBuf' = <<>>

\* the buffer of cout is written out (it is full, or standard output is a
\* terminal and a line is complete)
Flush ==
    /\ pc # "exited"
    /\ coutBuf # <<>>
    /\ stdout' = stdout \o coutBuf
    /\ coutBuf' = <<>>
    /\ UNCHANGED <<inputVars, fileVars, workerVars, sharedVars, d_flag,
                   n_threads, pc, exitCode, headers, BlockLine, shuffled,
                   keyBuilt>>

(***************************************************************************)
(* main.                                                                   *)
(***************************************************************************)
\* a compaction run is started with n threads: main up to the options (the
\* thread counts are tried in increasing order)
RunCompress(n) ==
    /\ IF pc = "exited" THEN ~d_flag /\ exitCode = 0 ELSE pc = "idle"
    /\ \A m \in 1..MaxThreads : outs[m] = Absent <=> m >= n
    /\ d_flag' = FALSE
    /\ n_threads' = n
    /\ pc' = "checkPass"
    /\ ProcessStart
    /\ UNCHANGED <<inputVars, fileVars>>

\* checkPass (fcn.h): a password of fewer than 8 characters ends the run
CheckPass ==
    /\ pc = "checkPass"
    /\ IF Len(pass) < 8
       THEN Exit(1)
       ELSE /\ pc' = IF d_flag THEN "decrypt" ELSE "fileType"
            /\ UNCHANGED <<exitCode, coutBuf, stdout>>
    /\ UNCHANGED <<inputVars, fileVars, workerVars, sharedVars, d_flag,
                   n_threads, headers, BlockLine, shuffled, keyBuilt>>

\* the switch on fileType: compressFA, or the message and return 0
MainSwitch ==
    /\ pc = "fileType"
    /\ fileType(TextFile(inFile)) # "Q"
    /\ IF fileType(TextFile(inFile)) = "A"
       THEN /\ pc' = "compressFA"
            /\ UNCHANGED <<exitCode, coutBuf, stdout>>
       ELSE Exit(0)
    /\ UNCHANGED <<inputVars, fileVars, workerVars, sharedVars, d_flag,
                   n_threads, headers, BlockLine, shuffled, keyBuilt>>

\* return 0 at the end of main; a finished compaction is recorded
MainReturn ==
    /\ pc = "return"
    /\ Exit(0)
    /\ outs' = IF d_flag THEN outs
               ELSE [outs EXCEPT ![n_threads] = stdout \o coutBuf]
    /\ UNCHANGED <<inFile, pass, disable_shuffle, call, fileVars, workerVars,
                   sharedVars, d_flag, n_threads, headers, BlockLine, shuffled,
                   keyBuilt>>

(***************************************************************************)
(* compressFA.                                                             *)
(***************************************************************************)
\* CompressFA_Scan that writes the watermark to cout before the workers start
CompressFA_Scan_mark ==
    /\ pc = "compressFA"
    /\ LET f == TextFile(inFile) IN
       IF MaxBLen(f) = 0
       THEN /\ Undefined
            /\ UNCHANGED <<headers, BlockLine, wpc>>
       ELSE /\ headers' = GatherHeaders(f)
            /\ BlockLine' = BlockLineFA(MaxBLen(f))
            /\ wpc' = [t \in Threads |-> IF t < n_threads THEN "open" ELSE "none"]
            /\ pc' = "join"
            /\ coutBuf' = coutBuf \o Watermark
            /\ UNCHANGED <<exitCode, stdout>>
    /\ UNCHANGED <<inputVars, fileVars, sharedVars, d_flag, n_threads, shuffled,
                   wpos, win, wctx, wseed, keyBuilt>>

\* gatherHdrBs, the choice of the packer, and the start of the workers
CompressFA_Scan ==
    /\ pc = "compressFA"
    /\ LET f == TextFile(inFile) IN
       IF MaxBLen(f) = 0
       THEN /\ Undefined
            /\ UNCHANGED <<headers, BlockLine, wpc>>
       ELSE /\ headers' = GatherHeaders(f)
            /\ BlockLine' = BlockLineFA(MaxBLen(f))
            /\ wpc' = [t \in Threads |-> IF t < n_threads THEN "open" ELSE "none"]
            /\ pc' = "join"
            /\ UNCHANGED <<exitCode, coutBuf, stdout>>
    /\ UNCHANGED <<inputVars, fileVars, sharedVars, d_flag, n_threads, shuffled,
                   wpos, win, wctx, wseed, keyBuilt>>

\* CompressFA_Join that leaves the watermark out
CompressFA_Join_noMark ==
    /\ pc = "join"
    /\ ~d_flag
    /\ \A t \in Threads : wpc[t] \in {"none", "done"}
    /\ pc' = "assemble"
    /\ UNCHANGED <<inputVars, fileVars, workerVars, sharedVars, d_flag,
                   n_threads, exitCode, coutBuf, stdout, headers, BlockLine,
                   shuffled, keyBuilt>>

\* the workers are joined and the watermark is written to cout
CompressFA_Join ==
    /\ pc = "join"
    /\ ~d_flag
    /\ \A t \in Threads : wpc[t] \in {"none", "done"}
    /\ coutBuf' = coutBuf \o Watermark
    /\ pc' = "assemble"
    /\ UNCHANGED <<inputVars, fileVars, workerVars, sharedVars, d_flag,
                   n_threads, exitCode, stdout, headers, BlockLine, shuffled,
                   keyBuilt>>

\* the packed file is written: header, the chunks of the per-thread files
\* in turn, 252; the per-thread files are removed
CompressFA_Assemble ==
    /\ pc = "assemble"
    /\ pckdFile' = FileHeader(headers, disable_shuffle)
                       \o JoinFiles(pkFile, n_threads, FALSE) \o <<252>>
    /\ pkFile' = [t \in Threads |-> IF t < n_threads THEN Absent ELSE pkFile[t]]
    /\ pc' = "encrypt"
    /\ UNCHANGED <<inputVars, workerVars, sharedVars, d_flag, n_threads,
                   exitCode, coutBuf, stdout, cryFile, decFile, upkFile,
                   headers, BlockLine, shuffled, keyBuilt>>

\* encrypt: key and IV from the password, the packed file encrypted to cout
\* and removed
Encrypt ==
    /\ pc = "encrypt"
    /\ LET k == buildKey(engine, pass)
           v == buildIV(k.e, pass)
       IN  /\ coutBuf' = coutBuf \o cbcEnc(k.key, v.iv, pckdFile)
           /\ engine' = v.e
    /\ keyBuilt' = TRUE
    /\ pckdFile' = Absent
    /\ pc' = "return"
    /\ UNCHANGED <<inputVars, workerVars, mutx, shufflingInProgress,
                   shufflingMsgs,
                   seed_shared, d_flag, n_threads, exitCode, stdout, cryFile,
                   decFile, pkFile, upkFile, headers, BlockLine, shuffled>>

\* encrypt when the cipher or its file source throws
EncryptFail ==
    /\ pc = "encrypt"
    /\ Abort
    /\ keyBuilt' = TRUE
    /\ engine' = buildIV(buildKey(engine, pass).e, pass).e
    /\ UNCHANGED <<inputVars, fileVars, workerVars, mutx, shufflingInProgress,
                   shufflingMsgs,
                   seed_shared, d_flag, n_threads, headers, BlockLine, shuffled>>

(***************************************************************************)
(* packFA: one worker thread t.                                            *)
(***************************************************************************)
\* what a step of a worker leaves alone
WorkerFrame ==
    UNCHANGED <<inputVars, d_flag, n_threads, pc, exitCode, coutBuf, stdout,
                cryFile, pckdFile, decFile, headers, BlockLine, shuffled,
                keyBuilt>>

\* the files are opened (the output file in append mode) and the lines of
\* the threads before t are skipped
PackFA_Open(t) ==
    /\ pc = "join"
    /\ wpc[t] = "open"
    /\ pkFile' = [pkFile EXCEPT ![t] = IF @ = Absent THEN <<>> ELSE @]
    /\ wpos' = [wpos EXCEPT ![t] = Ignore(TextFile(inFile), 0, t * BlockLine)]
    /\ wpc' = [wpc EXCEPT ![t] = "peek"]
    /\ UNCHANGED <<sharedVars, win, wctx, wseed, upkFile>>
    /\ WorkerFrame

\* the test of the loop and, when there is input left, the lines of a block
\* read and packed into the context
PackFA_Block(t) ==
    /\ pc = "join"
    /\ wpc[t] = "peek"
    /\ ~d_flag
    /\ LET f == TextFile(inFile) IN
       IF wpos[t] < EndPos(f)
       THEN /\ wctx' = [wctx EXCEPT ![t] =
                           PackBlock(PackerOf(headers), f, wpos[t], BlockLine)]
            /\ wpos' = [wpos EXCEPT ![t] = Ignore(f, wpos[t], BlockLine)]
            /\ wpc' = [wpc EXCEPT ![t] =
                          IF ~disable_shuffle THEN "lock" ELSE "write"]
       ELSE /\ wpc' = [wpc EXCEPT ![t] = "done"]
            /\ UNCHANGED <<wctx, wpos>>
    /\ UNCHANGED <<sharedVars, win, wseed, pkFile, upkFile>>
    /\ WorkerFrame

\* mutx.lock() before the flag
PackFA_Lock(t) ==
    /\ pc = "join"
    /\ wpc[t] = "lock"
    /\ ~d_flag
    /\ mutx = -1
    /\ mutx' = t
    /\ wpc' = [wpc EXCEPT ![t] = "flag"]
    /\ UNCHANGED <<shufflingInProgress, shufflingMsgs, engine, seed_shared,
               wpos, win, wctx,
                   wseed, pkFile, upkFile>>
    /\ WorkerFrame

\* the flag step when the flag is left set
PackFA_Flag_keep(t) ==
    /\ pc = "join"
    /\ wpc[t] = "flag"
    /\ ~d_flag
    /\ shufflingMsgs' = shufflingMsgs + (IF shufflingInProgress THEN 1 ELSE 0)
    /\ shufflingInProgress' = shufflingInProgress
    /\ mutx' = -1
    /\ wpc' = [wpc EXCEPT ![t] = "seedGen"]
    /\ UNCHANGED <<engine, seed_shared, wpos, win, wctx, wseed, pkFile,
                   upkFile>>
    /\ WorkerFrame

\* shufflingInProgress = false; mutx.unlock()
PackFA_Flag(t) ==
    /\ pc = "join"
    /\ wpc[t] = "flag"
    /\ ~d_flag
    /\ shufflingMsgs' = shufflingMsgs + (IF shufflingInProgress THEN 1 ELSE 0)
    /\ shufflingInProgress' = FALSE
    /\ mutx' = -1
    /\ wpc' = [wpc EXCEPT ![t] = "seedGen"]
    /\ UNCHANGED <<engine, seed_shared, wpos, win, wctx, wseed, pkFile,
                   upkFile>>
    /\ WorkerFrame

\* un_shuffleSeedGen: mutx.lock()
SeedGen_Lock(t) ==
    /\ pc = "join"
    /\ wpc[t] = "seedGen"
    /\ mutx = -1
    /\ mutx' = t
    /\ wpc' = [wpc EXCEPT ![t] = "rand"]
    /\ UNCHANGED <<shufflingInProgress, shufflingMsgs, engine, seed_shared,
               wpos, win, wctx,
                   wseed, pkFile, upkFile>>
    /\ WorkerFrame

\* un_shuffleSeedGen: my_srand, the sum of the my_rand draws, mutx.unlock()
SeedGen_Rand(t) ==
    /\ pc = "join"
    /\ wpc[t] = "rand"
    /\ LET r == un_shuffleSeedGen(engine, pass)
       IN  /\ wseed' = [wseed EXCEPT ![t] = r.seed]
           /\ engine' = r.e
    /\ mutx' = -1
    /\ wpc' = [wpc EXCEPT ![t] = "store"]
    /\ UNCHANGED <<shufflingInProgress, shufflingMsgs, seed_shared, wpos, win,
               wctx, pkFile,
                   upkFile>>
    /\ WorkerFrame

\* un_shuffleSeedGen: seed_shared = seed
SeedGen_Store(t) ==
    /\ pc = "join"
    /\ wpc[t] = "store"
    /\ seed_shared' = wseed[t]
    /\ wpc' = [wpc EXCEPT ![t] = "shuffle"]
    /\ UNCHANGED <<mutx, shufflingInProgress, shufflingMsgs, engine, wpos,
               win, wctx, wseed,
                   pkFile, upkFile>>
    /\ WorkerFrame

\* shufflePkd: the context is shuffled with seed_shared
PackFA_Shuffle(t) ==
    /\ pc = "join"
    /\ wpc[t] = "shuffle"
    /\ ~d_flag
    /\ wctx' = [wctx EXCEPT ![t] = shufflePkd(@, seed_shared)]
    /\ wpc' = [wpc EXCEPT ![t] = "write"]
    /\ UNCHANGED <<sharedVars, wpos, win, wseed, pkFile, upkFile>>
    /\ WorkerFrame

\* the thread-id line and the sized context are appended to the file of the
\* thread, and the lines of the other threads are skipped
PackFA_Write(t) ==
    /\ pc = "join"
    /\ wpc[t] = "write"
    /\ ~d_flag
    /\ pkFile' = [pkFile EXCEPT ![t] = @ \o PkRecord(t, wctx[t])]
    /\ wpos' = [wpos EXCEPT ![t] =
                   Ignore(TextFile(inFile), @, SkipLines(n_threads, BlockLine))]
    /\ wpc' = [wpc EXCEPT ![t] = "peek"]
    /\ UNCHANGED <<sharedVars, win, wctx, wseed, upkFile>>
    /\ WorkerFrame

(***************************************************************************)
(* Decryption and decompaction.                                            *)
(***************************************************************************)
\* what getline reads first from a file, and what follows it
FirstLine(c) ==
    LET k == Find(c, 10, 1) IN IF k = 0 THEN c ELSE SubSeq(c, 1, k - 1)
AfterFirstLine(c) ==
    LET k == Find(c, 10, 1) IN IF k = 0 THEN <<>> ELSE SubSeq(c, k + 1, Len(c))

\* the files decryption is tried on: the output c of a compaction as it is,
\* without its first line, with the watermark of another version, with
\* nothing in it, and with its last byte cut off
Variants == {"intact", "noFirstLine", "otherVersion", "empty", "cut"}
Tamper(c, v) ==
    CASE v = "intact" -> c
      [] v = "noFirstLine" -> AfterFirstLine(c)
      [] v = "otherVersion" ->
            <<35, 99, 114, 121, 102, 97, 32, 118>>
                \o to_string(VERSION_CRYFA + 1) \o <<46>>
                \o to_string(RELEASE_CRYFA) \o <<10>> \o AfterFirstLine(c)
      [] v = "empty" -> <<>>
      [] v = "cut" -> SubSeq(c, 1, Len(c) - 1)

\* BadWatermark that looks at "#cryfa v" only, not at the version
BadWatermark_prefix(line) ==
    SubSeq(line, 1, Min(8, Len(line))) # <<35, 99, 114, 121, 102, 97, 32, 118>>

\* (line + "\n") != watermark
BadWatermark(line) == (line \o <<10>>) # Watermark

\* a decryption run with n threads, and with option -s or without it, is
\* started on the output of the compaction with m threads
RunDecrypt(n, m, v, s) ==
    /\ pc = "exited"
    /\ ~d_flag
    /\ exitCode = 0
    /\ outs[m] # Absent
    /\ cryFile' = Tamper(outs[m], v)
    /\ outs' = [k \in 1..MaxThreads |-> IF k = m THEN outs[m] ELSE Absent]
    /\ d_flag' = TRUE
    /\ n_threads' = n
    /\ disable_shuffle' = s
    /\ pc' = "checkPass"
    /\ ProcessStart
    /\ UNCHANGED <<inFile, pass, call, pckdFile, decFile, pkFile, upkFile>>

\* decrypt up to the check of the first line against the watermark
Decrypt_Check ==
    /\ pc = "decrypt"
    /\ IF BadWatermark(FirstLine(cryFile))
       THEN Exit(1)
       ELSE /\ pc' = "decryptKey"
            /\ UNCHANGED <<exitCode, coutBuf, stdout>>
    /\ UNCHANGED <<inputVars, fileVars, workerVars, sharedVars, d_flag,
                   n_threads, headers, BlockLine, shuffled, keyBuilt>>

\* decrypt from the key on: the rest of the file is decrypted into the
\* decrypted file; a ciphertext the cipher rejects makes it throw
Decrypt_Run ==
    /\ pc = "decryptKey"
    /\ LET k == buildKey(engine, pass)
           v == buildIV(k.e, pass)
           r == cbcDec(k.key, v.iv, AfterFirstLine(cryFile))
       IN  /\ engine' = v.e
           /\ decFile' = r.out
           /\ IF r.ok
              THEN /\ pc' = "peek"
                   /\ UNCHANGED <<exitCode, coutBuf, stdout>>
              ELSE Abort
    /\ keyBuilt' = TRUE
    /\ UNCHANGED <<inputVars, workerVars, mutx, shufflingInProgress,
                   shufflingMsgs,
                   seed_shared, d_flag, n_threads, cryFile, pckdFile, pkFile,
                   upkFile, headers, BlockLine, shuffled>>

\* main: the first byte of the decrypted file tells FASTA (127)
MainPeek ==
    /\ pc = "peek"
    /\ decFile # <<>>
    /\ decFile[1] = 127
    /\ pc' = "decompressFA"
    /\ UNCHANGED <<inputVars, fileVars, workerVars, sharedVars, d_flag,
                   n_threads, exitCode, coutBuf, stdout, headers, BlockLine,
                   shuffled, keyBuilt>>

\* decompressFA up to the start of the workers: the head of the file is
\* read and each thread is given a chunk until 252 comes next
DecompressFA_Start ==
    /\ pc = "decompressFA"
    /\ Len(decFile) >= 2
    /\ LET h == ParseFileHeader(decFile)
           d == Dispatch(decFile,
                         [NoStream EXCEPT !.pos = h.pos, !.fail = h.fail,
                                          !.c = IF h.fail THEN decFile[Len(decFile)]
                                                ELSE 254],
                         0, n_threads)
           job(t) == CHOOSE j \in {d.jobs[k] : k \in 1..Len(d.jobs)} : j.t = t
           given == {d.jobs[k].t : k \in 1..Len(d.jobs)}
       IN  /\ Len(h.headers) <= MAX_C5
           /\ shuffled' = h.shuffled
           /\ headers' = h.headers
           /\ IF d.abort
              THEN /\ Abort
                   /\ UNCHANGED <<wpc, win>>
              ELSE /\ wpc' = [t \in Threads |->
                                IF t \in given THEN "uopen" ELSE "none"]
                   /\ win' = [t \in Threads |->
                                IF t \in given
                                THEN [NoStream EXCEPT !.beg = job(t).beg,
                                                      !.size = job(t).size]
                                ELSE NoStream]
                   /\ pc' = "join"
                   /\ UNCHANGED <<exitCode, coutBuf, stdout>>
    /\ UNCHANGED <<inputVars, fileVars, sharedVars, d_flag, n_threads,
                   BlockLine, wpos, wctx, wseed, keyBuilt>>

\* the unpack workers are joined and the decrypted file is removed
DecompressFA_Join ==
    /\ pc = "join"
    /\ d_flag
    /\ \A t \in Threads : wpc[t] \in {"none", "done"}
    /\ decFile' = Absent
    /\ pc' = "merge"
    /\ UNCHANGED <<inputVars, workerVars, sharedVars, d_flag, n_threads,
                   exitCode, coutBuf, stdout, cryFile, pckdFile, pkFile,
                   upkFile, headers, BlockLine, shuffled, keyBuilt>>

\* DecompressFA_Merge without the removal of the unpacked files
DecompressFA_Merge_keep ==
    /\ pc = "merge"
    /\ IF upkFile[0] = Absent
       THEN /\ pc' = "hang"
            /\ UNCHANGED <<coutBuf, upkFile>>
       ELSE /\ coutBuf' = coutBuf \o JoinFiles(upkFile, n_threads, TRUE)
            /\ upkFile' = upkFile
            /\ pc' = "return"
    /\ UNCHANGED <<inputVars, workerVars, sharedVars, d_flag, n_threads,
                   exitCode, stdout, cryFile, pckdFile, decFile, pkFile,
                   headers, BlockLine, shuffled, keyBuilt>>

\* the unpacked files are written to cout in turn and removed; the loop
\* does not end when the file of thread 0 could not be opened
DecompressFA_Merge ==
    /\ pc = "merge"
    /\ IF upkFile[0] = Absent
       THEN /\ pc' = "hang"
            /\ UNCHANGED <<coutBuf, upkFile>>
       ELSE /\ coutBuf' = coutBuf \o JoinFiles(upkFile, n_threads, TRUE)
            /\ upkFile' = [t \in Threads |->
                             IF t < n_threads THEN Absent ELSE upkFile[t]]
            /\ pc' = "return"
    /\ UNCHANGED <<inputVars, workerVars, sharedVars, d_flag, n_threads,
                   exitCode, stdout, cryFile, pckdFile, decFile, pkFile,
                   headers, BlockLine, shuffled, keyBuilt>>

(***************************************************************************)
(* unpackHS: one worker thread t.                                          *)
(***************************************************************************)
\* the files are opened, the output file in append mode
UnpackHS_Open(t) ==
    /\ pc = "join"
    /\ wpc[t] = "uopen"
    /\ upkFile' = [upkFile EXCEPT ![t] = IF @ = Absent THEN <<>> ELSE @]
    /\ wpc' = [wpc EXCEPT ![t] = "upeek"]
    /\ UNCHANGED <<sharedVars, wpos, win, wctx, wseed, pkFile>>
    /\ WorkerFrame

\* UnpackHS_Read that takes the decision to unshuffle from the option -s of
\* the run
UnpackHS_Read_ownOption(t) ==
    /\ pc = "join"
    /\ wpc[t] = "upeek"
    /\ LET st == win[t]
           r == ReadChunk(decFile, st.c, st.beg, st.size)
       IN  IF ~st.fail /\ st.pos < Len(decFile)
           THEN /\ wctx' = [wctx EXCEPT ![t] = r.text]
                /\ win' = [win EXCEPT ![t] =
                              [st EXCEPT !.pos = IF r.fail THEN Len(decFile)
                                                 ELSE st.beg + st.size,
                                         !.c = r.c, !.fail = r.fail]]
                /\ wpc' = [wpc EXCEPT ![t] = IF ~disable_shuffle THEN "ulock" ELSE "unpack"]
           ELSE /\ wpc' = [wpc EXCEPT ![t] = "done"]
                /\ UNCHANGED <<wctx, win>>
    /\ UNCHANGED <<sharedVars, wpos, wseed, pkFile, upkFile>>
    /\ WorkerFrame

\* the test of the loop and, when the stream is not at its end, the chunk
\* read into decText
UnpackHS_Read(t) ==
    /\ pc = "join"
    /\ wpc[t] = "upeek"
    /\ LET st == win[t]
           r == ReadChunk(decFile, st.c, st.beg, st.size)
       IN  IF ~st.fail /\ st.pos < Len(decFile)
           THEN /\ wctx' = [wctx EXCEPT ![t] = r.text]
                /\ win' = [win EXCEPT ![t] =
                              [st EXCEPT !.pos = IF r.fail THEN Len(decFile)
                                                 ELSE st.beg + st.size,
                                         !.c = r.c, !.fail = r.fail]]
                /\ wpc' = [wpc EXCEPT ![t] = IF shuffled THEN "ulock" ELSE "unpack"]
           ELSE /\ wpc' = [wpc EXCEPT ![t] = "done"]
                /\ UNCHANGED <<wctx, win>>
    /\ UNCHANGED <<sharedVars, wpos, wseed, pkFile, upkFile>>
    /\ WorkerFrame

\* mutx.lock() before the flag
UnpackHS_Lock(t) ==
    /\ pc = "join"
    /\ wpc[t] = "ulock"
    /\ mutx = -1
    /\ mutx' = t
    /\ wpc' = [wpc EXCEPT ![t] = "uflag"]
    /\ UNCHANGED <<shufflingInProgress, shufflingMsgs, engine, seed_shared,
               wpos, win, wctx,
                   wseed, pkFile, upkFile>>
    /\ WorkerFrame

\* shufflingInProgress = false; mutx.unlock()
UnpackHS_Flag(t) ==
    /\ pc = "join"
    /\ wpc[t] = "uflag"
    /\ shufflingMsgs' = shufflingMsgs + (IF shufflingInProgress THEN 1 ELSE 0)
    /\ shufflingInProgress' = FALSE
    /\ mutx' = -1
    /\ wpc' = [wpc EXCEPT ![t] = "seedGen"]
    /\ UNCHANGED <<engine, seed_shared, wpos, win, wctx, wseed, pkFile,
                   upkFile>>
    /\ WorkerFrame

\* unshufflePkd after its seed: decText is put back in order
UnpackHS_Unshuffle(t) ==
    /\ pc = "join"
    /\ wpc[t] = "shuffle"
    /\ d_flag
    /\ wctx' = [wctx EXCEPT ![t] = unshufflePkd(@, seed_shared)]
    /\ wpc' = [wpc EXCEPT ![t] = "unpack"]
    /\ UNCHANGED <<sharedVars, wpos, win, wseed, pkFile, upkFile>>
    /\ WorkerFrame

\* UnpackHS_Unpack that goes on with the chunk that comes next in the file
UnpackHS_Unpack_next(t) ==
    /\ pc = "join"
    /\ wpc[t] = "unpack"
    /\ LET u == UnpackChunk(UnpackerOf(headers), wctx[t], 1)
           st == ScanNext(decFile, win[t], win[t].beg + win[t].size, 1)
       IN  IF ~u.ok \/ -1 \in {wctx[t][k] : k \in 1..Len(wctx[t])}
           THEN /\ Undefined
                /\ UNCHANGED <<upkFile, win, wpc>>
           ELSE /\ upkFile' = [upkFile EXCEPT ![t] =
                                  @ \o THR_ID_HDR \o to_string(t) \o <<10>> \o u.out]
                /\ IF st.abort
                   THEN /\ Abort
                        /\ UNCHANGED <<win, wpc>>
                   ELSE /\ win' = [win EXCEPT ![t] = st]
                        /\ wpc' = [wpc EXCEPT ![t] = "upeek"]
                        /\ UNCHANGED <<pc, exitCode, coutBuf, stdout>>
    /\ UNCHANGED <<inputVars, sharedVars, d_flag, n_threads, cryFile, pckdFile,
                   decFile, pkFile, headers, BlockLine, shuffled, keyBuilt,
                   wpos, wctx, wseed>>

\* the thread-id line and the unpacked lines of the chunk are appended to
\* the file of the thread, and the next chunk of the thread is looked for
UnpackHS_Unpack(t) ==
    /\ pc = "join"
    /\ wpc[t] = "unpack"
    /\ LET u == UnpackChunk(UnpackerOf(headers), wctx[t], 1)
           st == ScanNext(decFile, win[t], win[t].beg + win[t].size, n_threads)
       IN  IF ~u.ok \/ -1 \in {wctx[t][k] : k \in 1..Len(wctx[t])}
           THEN /\ Undefined
                /\ UNCHANGED <<upkFile, win, wpc>>
           ELSE /\ upkFile' = [upkFile EXCEPT ![t] =
                                  @ \o THR_ID_HDR \o to_string(t) \o <<10>> \o u.out]
                /\ IF st.abort
                   THEN /\ Abort
                        /\ UNCHANGED <<win, wpc>>
                   ELSE /\ win' = [win EXCEPT ![t] = st]
                        /\ wpc' = [wpc EXCEPT ![t] = "upeek"]
                        /\ UNCHANGED <<pc, exitCode, coutBuf, stdout>>
    /\ UNCHANGED <<inputVars, sharedVars, d_flag, n_threads, cryFile, pckdFile,
                   decFile, pkFile, headers, BlockLine, shuffled, keyBuilt,
                   wpos, wctx, wseed>>

UnpackHS(t) ==
    \/ UnpackHS_Open(t)
    \/ UnpackHS_Read(t)
    \/ UnpackHS_Lock(t)
    \/ UnpackHS_Flag(t)
    \/ UnpackHS_Unshuffle(t)
    \/ UnpackHS_Unpack(t)

PackFA(t) ==
    \/ PackFA_Open(t)
    \/ PackFA_Block(t)
    \/ PackFA_Lock(t)
    \/ PackFA_Flag(t)
    \/ PackFA_Shuffle(t)
    \/ PackFA_Write(t)

un_shuffleSeedGenStep(t) ==
    \/ SeedGen_Lock(t)
    \/ SeedGen_Rand(t)
    \/ SeedGen_Store(t)

Next ==
    \/ \E n \in 1..MaxThreads : RunCompress(n)
    \/ CheckPass
    \/ MainSwitch
    \/ MainReturn
    \/ Flush
    \/ CompressFA_Scan
    \/ CompressFA_Join
    \/ CompressFA_Assemble
    \/ Encrypt
    \/ EncryptFail
    \/ \E t \in Threads : PackFA(t)
    \/ \E n \in 1..MaxThreads : \E m \in 1..MaxThreads : \E v \in Variants :
           \E s \in BOOLEAN : RunDecrypt(n, m, v, s)
    \/ Decrypt_Check
    \/ Decrypt_Run
    \/ MainPeek
    \/ DecompressFA_Start
    \/ DecompressFA_Join
    \/ DecompressFA_Merge
    \/ \E t \in Threads : UnpackHS(t)
    \/ \E t \in Threads : un_shuffleSeedGenStep(t)

Spec == Init /\ [][Next]_vars

(***************************************************************************)
(* The chunks of the input computed block by block, one after the other,   *)
(* as a single worker that is never interrupted computes them.             *)
(***************************************************************************)
\* a valid password and a FASTA file: a run that gets to compressFA
ValidRun == Len(pass) >= 8 /\ fileType(TextFile(inFile)) = "A"

SeqBlockLine == BlockLineFA(MaxBLen(TextFile(inFile)))

\* the number of blocks: a block starts wherever peek() is not EOF
SeqBlocks == (EndPos(TextFile(inFile)) + SeqBlockLine - 1) \div SeqBlockLine

\* the context of block b (from 0), shuffled unless shuffling is disabled
SeqContext(b) ==
    LET f == TextFile(inFile)
        c == PackBlock(PackerOf(GatherHeaders(f)), f, b * SeqBlockLine, SeqBlockLine)
    IN  IF ~disable_shuffle THEN shufflePkd(c, un_shuffleSeedGen(1, pass).seed)
        ELSE c

\* the file of thread t of n: the records of the blocks t, t+n, t+2n, ...
RECURSIVE SeqPkFile(_, _, _)
SeqPkFile(t, n, b) ==
    IF b >= SeqBlocks THEN <<>>
    ELSE PkRecord(t, SeqContext(b)) \o SeqPkFile(t, n, b + n)

\* the packed file assembled from these files
SeqStream(n) ==
    FileHeader(GatherHeaders(TextFile(inFile)), disable_shuffle)
        \o JoinFiles([t \in 0..(n - 1) |-> SeqPkFile(t, n, t)], n, FALSE)
        \o <<252>>

\* s occurs in text
Contains(text, s) ==
    \E k \in 1..(Len(text) - Len(s) + 1) : SubSeq(text, k, k + Len(s) - 1) = s

\* s is the beginning of text
IsPrefix(s, text) == Len(s) <= Len(text) /\ SubSeq(text, 1, Len(s)) = s

\* the decryption run reads the output of a compaction as it was written
Intact == \E m \in 1..MaxThreads : outs[m] # Absent /\ cryFile = outs[m]

(***************************************************************************)
(* C1.  Round trip: for every FASTA input and every password of at least   *)
(* 8 characters, compaction and encryption followed by decryption and      *)
(* decompaction with the same password give the input back byte for byte,  *)
(* with or without shuffling and for every number of threads.              *)
(***************************************************************************)
C1_RoundTrip ==
    (d_flag /\ Intact /\ Len(pass) >= 8 /\ pc = "exited")
        => (exitCode = 0 /\ stdout = inFile)

(***************************************************************************)
(* C2.  A stream packed by N workers is unpacked to the original input by  *)
(* any number N' >= 1 of workers, equal to N or not, also when N' is       *)
(* larger than the number of chunks.                                       *)
(***************************************************************************)
C2_AnyWorkers ==
    \A n \in 1..MaxThreads : \A m \in 1..MaxThreads :
        (d_flag /\ n_threads = n /\ outs[m] # Absent /\ cryFile = outs[m]
            /\ pc = "return")
            => stdout \o coutBuf = inFile

(***************************************************************************)
(* C3.  As claimed: compacting a valid input with 1, 2 and 4 threads       *)
(* (same password, same shuffle option) gives three outputs that differ    *)
(* from one another.                                                       *)
(***************************************************************************)
C3_Distinct ==
    (outs[1] # Absent /\ outs[2] # Absent /\ outs[4] # Absent)
        => (outs[1] # outs[2] /\ outs[1] # outs[4] /\ outs[2] # outs[4])

\* no chunk of the input, with its size, has the text "THR=" in it
NoMarkerInChunks ==
    \A b \in 0..(SeqBlocks - 1) : ~Contains(WithSize(SeqContext(b)), THR_ID_HDR)

(***************************************************************************)
(* C3, amended.  The thread count is not part of the output: for a valid   *)
(* input none of whose chunks contains the text "THR=", the outputs of     *)
(* compaction with 1, 2 and 4 threads are the same bytes.                  *)
(***************************************************************************)
C3_SameOutput ==
    \A n \in {1, 2, 4} : \A m \in {1, 2, 4} :
        (~d_flag /\ pc = "exited" /\ outs[n] # Absent /\ outs[m] # Absent
            /\ outs[n] # outs[m])
            => ~NoMarkerInChunks

\* the three outputs exist for an input of several chunks, shuffled
C3_Witness ==
    /\ ~d_flag /\ pc = "exited"
    /\ outs[1] # Absent /\ outs[2] # Absent /\ outs[4] # Absent
    /\ outs[1] = outs[2] /\ outs[2] = outs[4]
    /\ NoMarkerInChunks
    /\ SeqBlocks >= 3
    /\ ~disable_shuffle

(***************************************************************************)
(* C4.  For a fixed input, password, shuffle option and thread count, the  *)
(* assembled packed file is the same whatever the interleaving of the      *)
(* packing workers: it is the file a one-after-the-other computation of    *)
(* the chunks gives, and so is the output.                                 *)
(***************************************************************************)
C4_Deterministic ==
    /\ (~d_flag /\ pc = "encrypt") => pckdFile = SeqStream(n_threads)
    /\ (~d_flag /\ pc = "exited" /\ outs[n_threads] # Absent)
           => outs[n_threads] =
                  Watermark \o cbcEnc(buildKey(1, pass).key, buildIV(1, pass).iv,
                                      SeqStream(n_threads))

\* several workers have each shuffled and written chunks of their own
C4_Witness ==
    /\ ~d_flag
    /\ pc = "encrypt"
    /\ n_threads >= 2
    /\ ~disable_shuffle
    /\ SeqBlocks >= 3
    /\ pckdFile = SeqStream(n_threads)

\* "#cryfa v1.0\n"
WatermarkLine == <<35, 99, 114, 121, 102, 97, 32, 118, 49, 46, 48, 10>>

(***************************************************************************)
(* C5.  In a compaction run the watermark line "#cryfa v1.0\n" is the      *)
(* first thing written to standard output and every byte of ciphertext is  *)
(* written after it: what has been written so far is empty or starts with  *)
(* the watermark, on cout and on standard output alike, and a finished     *)
(* run has written the watermark and then the ciphertext.                  *)
(***************************************************************************)
C5_WatermarkFirst ==
    ~d_flag =>
        /\ stdout \o coutBuf = <<>> \/ IsPrefix(WatermarkLine, stdout \o coutBuf)
        /\ stdout = <<>> \/ IsPrefix(WatermarkLine, stdout)
        /\ pc = "encrypt" => stdout \o coutBuf = WatermarkLine
        /\ (pc = "exited" /\ exitCode = 0 /\ ValidRun)
               => /\ Len(stdout) > Len(WatermarkLine)
                  /\ cbcDec(buildKey(1, pass).key, buildIV(1, pass).iv,
                            SubSeq(stdout, Len(WatermarkLine) + 1, Len(stdout))).ok

\* a compaction has ended with the watermark followed by ciphertext
C5_Witness ==
    /\ ~d_flag
    /\ pc = "exited"
    /\ exitCode = 0
    /\ IsPrefix(WatermarkLine, stdout)
    /\ Len(stdout) > Len(WatermarkLine)

(***************************************************************************)
(* C6.  Decryption of a file whose first line is missing or is not the     *)
(* watermark ends with exit status 1, before a key is built, before the    *)
(* decrypted file is created and before anything is written to standard    *)
(* output.                                                                 *)
(***************************************************************************)
C6_BadWatermark ==
    (d_flag /\ FirstLine(cryFile) \o <<10>> # WatermarkLine)
        => /\ pc \in {"checkPass", "decrypt", "exited"}
           /\ pc = "exited" => exitCode = 1
           /\ ~keyBuilt
           /\ decFile = Absent
           /\ stdout = <<>>
           /\ coutBuf = <<>>

\* a run with a valid password has ended on the watermark of another version
C6_Witness ==
    /\ d_flag
    /\ Len(pass) >= 8
    /\ cryFile # <<>>
    /\ FirstLine(cryFile) \o <<10>> # WatermarkLine
    /\ pc = "exited"
    /\ exitCode = 1

(***************************************************************************)
(* C7.  When the input is neither FASTA nor FASTQ the process ends with    *)
(* exit status 1.                                                          *)
(***************************************************************************)
C7_BadTypeExit ==
    (~d_flag /\ Len(pass) >= 8 /\ fileType(TextFile(inFile)) = "n"
        /\ pc = "exited")
        => exitCode = 1

(***************************************************************************)
(* C8.  When a compaction run ends on a fatal error, a failure of the      *)
(* cipher in encrypt included, nothing has been written to standard        *)
(* output.                                                                 *)
(***************************************************************************)
C8_NoPartialOutput ==
    (~d_flag /\ pc = "exited" /\ exitCode # 0) => stdout = <<>>

\* a line of bases of the input (a line that is no header) has a space in it
HasSpaceInBases ==
    LET f == TextFile(inFile)
    IN  \E k \in 1..Len(f.lines) :
            ~IsHdrLine(f.lines[k]) /\ Find(f.lines[k], 32, 1) # 0

(***************************************************************************)
(* C9.  Compaction of a FASTA file with a space in a line of bases ends    *)
(* the run on an error (exit status 1) and packs nothing of the file.      *)
(***************************************************************************)
C9_SpaceAborts ==
    (~d_flag /\ HasSpaceInBases)
        => /\ \A t \in Threads : pkFile[t] \in {Absent, <<>>}
           /\ pckdFile = Absent
           /\ pc = "exited" => exitCode = 1

\* text from position p on is chunks, each 253, a decimal length, 254 and
\* as many bytes as the length says, and then the single byte 252
RECURSIVE ChunksThen252(_, _)
ChunksThen252(text, p) ==
    IF p > Len(text) THEN FALSE
    ELSE IF text[p] = 252 THEN p = Len(text)
    ELSE IF text[p] # 253 THEN FALSE
    ELSE LET k == Find(text, 254, p + 1)
             len == SubSeq(text, p + 1, k - 1)
         IN  /\ k # 0
             /\ IsDigits(len)
             /\ to_string(stoull(len)) = len
             /\ ChunksThen252(text, k + 1 + stoull(len))

(***************************************************************************)
(* C10.  The assembled packed file is always: the file header, then the    *)
(* chunks, each 253, its length in ASCII decimal, 254 and the payload,     *)
(* the length being the number of bytes of the payload (after shuffling),  *)
(* then one byte 252, the last byte of the file.  The payloads are those   *)
(* the workers packed, block after block.                                  *)
(***************************************************************************)
C10_Framing ==
    (~d_flag /\ pc = "encrypt")
        => LET h == FileHeader(headers, disable_shuffle)
           IN  /\ IsPrefix(h, pckdFile)
               /\ ChunksThen252(pckdFile, Len(h) + 1)
               /\ pckdFile = h \o Concat([b \in 1..SeqBlocks |->
                                            WithSize(SeqContext(b - 1))])
                               \o <<252>>


\* the line "THR=<t>\n"
ThrLine(t) == THR_ID_HDR \o to_string(t) \o <<10>>

\* text ends with s
IsSuffix(s, text) ==
    Len(s) <= Len(text) /\ SubSeq(text, Len(text) - Len(s) + 1, Len(text)) = s

(***************************************************************************)
(* C11, as stated.  Every chunk a worker writes ends with the line         *)
(* "THR=<t>" of its thread: the file of a packing worker that has written  *)
(* its chunks ends with that line.                                         *)
(***************************************************************************)
C11_MarkerLast ==
    \A t \in Threads :
        (~d_flag /\ pc = "join" /\ wpc[t] = "done" /\ pkFile[t] # Absent
             /\ pkFile[t] # <<>>)
            => IsSuffix(ThrLine(t), pkFile[t])

(***************************************************************************)
(* C11, amended.  Every chunk a worker writes begins with the line         *)
(* "THR=<t>" of its thread: whenever the file of thread t grows, what is   *)
(* appended is that line, then 253, the decimal size of the packed bytes,  *)
(* 254, the packed bytes, and a line feed.                                 *)
(***************************************************************************)
C11_MarkerFirst ==
    [][\A t \in Threads :
          (~d_flag /\ pkFile[t] # Absent /\ pkFile'[t] # Absent
               /\ pkFile'[t] # pkFile[t])
              => pkFile'[t] = pkFile[t] \o ThrLine(t) \o <<253>>
                                 \o to_string(Len(wctx[t])) \o <<254>>
                                 \o wctx[t] \o <<10>>]_vars

\* thread 1 of a compaction with several threads has written its chunks,
\* and its file starts with its thread-id line
C11_Witness ==
    /\ ~d_flag
    /\ pc = "join"
    /\ n_threads >= 2
    /\ wpc[1] = "done"
    /\ pkFile[1] # Absent
    /\ IsPrefix(ThrLine(1), pkFile[1])
    /\ Len(pkFile[1]) > Len(ThrLine(1))


(***************************************************************************)
(* The functions called on their own: a step calls one function on         *)
(* arguments from a small set and records the call and its result.  The    *)
(* variables of the run are left as they are.                              *)
(***************************************************************************)
runVars ==
    <<inFile, pass, disable_shuffle, d_flag, n_threads, pc, exitCode, coutBuf,
      stdout, cryFile, pckdFile, decFile, pkFile, upkFile, headers, BlockLine,
      shuffled, wpc, wpos, win, wctx, wseed, mutx, shufflingInProgress,
      shufflingMsgs,
      engine, seed_shared, keyBuilt, outs>>

\* the strings of at most n bytes from B
StringsOver(B, n) == UNION {[1..k -> B] : k \in 0..n}

\* states the static engine can be in when a function is called: fresh, left
\* by a seed derivation with some password, and others
EngineStates ==
    {1, 2, 48271, 2147483646} \cup {un_shuffleSeedGen(1, p).e : p \in Passwords}

\* the bytes of the strings handed to the shuffler
CtxBytes == {0, 10, 65, 254}

\* shufflePkd in one process, unshufflePkd of its result in another: the
\* engine is in state e1 in the first and in state e2 in the second
Fn_shuffle(x, p, e1, e2) ==
    /\ call = NoCall
    /\ call' = [fn |-> "shufflePkd", x |-> x, pass |-> p, e1 |-> e1, e2 |-> e2,
                shuffled |-> shufflePkd(x, un_shuffleSeedGen(e1, p).seed),
                res |-> unshufflePkd(
                            shufflePkd(x, un_shuffleSeedGen(e1, p).seed),
                            un_shuffleSeedGen(e2, p).seed)]
    /\ UNCHANGED runVars

\* buildKey and then buildIV as encrypt and decrypt call them, the engine
\* being in state e
Fn_buildKey(p, e) ==
    /\ call = NoCall
    /\ Len(p) >= 8
    /\ LET k == buildKey(e, p) IN
       call' = [fn |-> "buildKey", pass |-> p, e |-> e, key |-> k.key,
                iv |-> buildIV(k.e, p).iv]
    /\ UNCHANGED runVars

\* a sorted header alphabet of s characters ('>' is never one of them)
AlphabetOf(s) == [k \in 1..s |-> 62 + k]

\* the numbers of different characters the symbol codec is tried with: every
\* category and its limits, and more than MAX_C5
AlphabetSizes == {1, C1, C2, MIN_C3, MID_C3, MAX_C3, MAX_C3 + 1, MAX_C4,
                  MAX_C4 + 1, MAX_C5, MAX_C5 + 1}

\* the symbols the strings are made of: the first and the last of the
\* alphabet and one in between
SymbolsOf(s) ==
    {AlphabetOf(s)[1], AlphabetOf(s)[s], AlphabetOf(s)[Max(1, s - 3)]}

\* the header packer chosen for an alphabet of s characters, on string x,
\* and the unpacker chosen for it on the packed string closed by 254
Fn_packHdr(s, x) ==
    /\ call = NoCall
    /\ LET pk == PackerOf(AlphabetOf(s))
           packed == PackSymbols(pk, x)
       IN  call' = [fn |-> "packHdr", s |-> s, x |-> x, name |-> pk.name,
                    keyLen |-> pk.keyLen, bytes |-> pk.bytes,
                    packed |-> packed,
                    res |-> UnpackSymbols(UnpackerOf(AlphabetOf(s)),
                                          packed \o <<254>>, 1)]
    /\ UNCHANGED runVars

\* the bytes of the sequences handed to the base codec: bases, another
\* letter, and the bytes 252 and 254
SeqBytes == {65, 84, 66, 252, 254}

\* packSeq_3to1 on sequence x, and unpackSeqFA_3to1 on the packed sequence
\* closed by 254
Fn_packSeq(x) ==
    /\ call = NoCall
    /\ LET packed == packSeq_3to1(x)
       IN  call' = [fn |-> "packSeq", x |-> x, packed |-> packed,
                    res |-> unpackSeqFA_3to1(packed \o <<254>>, 1)]
    /\ UNCHANGED runVars

(***************************************************************************)
(* FASTQ: the scan of the input, the head of the packed file, the packing  *)
(* of a block of records and the unpacking of a chunk.                     *)
(***************************************************************************)
\* getline(in, line) at position p of a text file: [good, line, p]
GetLine(f, p) ==
    IF p < Len(f.lines)
    THEN [good |-> TRUE, line |-> f.lines[p + 1], p |-> p + 1]
    ELSE [good |-> FALSE, line |-> <<>>, p |-> EndPos(f)]

\* the set of the bytes of a line
CharsOf(line) == {line[k] : k \in 1..Len(line)}

\* the loop of gatherHdrQs from position p: the characters seen in header
\* lines and in quality lines and the longest of each, [h, q, maxHLen, maxQLen]
RECURSIVE GatherFrom(_, _, _)
GatherFrom(f, p, acc) ==
    LET hd == GetLine(f, p)
        qs == GetLine(f, Ignore(f, hd.p, 2))
        a1 == IF hd.good
              THEN [acc EXCEPT !.h = @ \cup CharsOf(hd.line),
                               !.maxHLen = Max(@, Len(hd.line))]
              ELSE acc
        a2 == IF qs.good
              THEN [a1 EXCEPT !.q = @ \cup CharsOf(qs.line),
                              !.maxQLen = Max(@, Len(qs.line))]
              ELSE a1
    IN  IF ~hd.good \/ ~qs.good THEN a2 ELSE GatherFrom(f, qs.p, a2)

\* gatherHdrQs that counts the records of a block, not its lines
gatherHdrQs_records(f) ==
    LET g == GatherFrom(f, 0, [h |-> {}, q |-> {}, maxHLen |-> 0, maxQLen |-> 0])
        b == (BLOCK_SIZE \div (g.maxHLen + 2 * g.maxQLen)) % U32
    IN  [headers |-> SortedSeq((g.h \cap (32..126)) \ {64}),
         qscores |-> SortedSeq(g.q \cap (32..126)),
         BlockLine |-> IF b = 0 THEN 4 ELSE b]

\* gatherHdrQs: the sorted characters of the headers without '@', those of
\* the quality scores, and the number of lines of a block
gatherHdrQs(f) ==
    LET g == GatherFrom(f, 0, [h |-> {}, q |-> {}, maxHLen |-> 0, maxQLen |-> 0])
        b == (4 * (BLOCK_SIZE \div (g.maxHLen + 2 * g.maxQLen))) % U32
    IN  [headers |-> SortedSeq((g.h \cap (32..126)) \ {64}),
         qscores |-> SortedSeq(g.q \cap (32..126)),
         BlockLine |-> IF b = 0 THEN 4 ELSE b]

\* hasFQjustPlus with the test of the third line turned round
hasFQjustPlus_longer(f) ==
    LET third == GetLine(f, Ignore(f, 0, 2))
    IN  third.good /\ Len(third.line) > 1

\* hasFQjustPlus: two lines are passed over; the third is not there or has
\* at most one character
hasFQjustPlus(f) ==
    LET third == GetLine(f, Ignore(f, 0, 2))
    IN  ~(third.good /\ Len(third.line) > 1)

\* what compressFQ writes before the chunks
FqFileHeader(hdrs, qss, disable, plus) ==
    <<IF ~disable THEN 128 ELSE 129>> \o hdrs \o <<254>> \o qss
        \o <<IF plus THEN 253 ELSE 10>>

\* the value of the member justPlus before decompressFQ reads the head
justPlusInit == TRUE

\* the position of the first '\n' or 253 of dec after position p, or 0
RECURSIVE FindQsEnd(_, _)
FindQsEnd(dec, p) ==
    IF p >= Len(dec) THEN 0
    ELSE IF dec[p + 1] \in {10, 253} THEN p + 1 ELSE FindQsEnd(dec, p + 1)

\* the head of the packed file as decompressFQ reads it
ParseFqHeader(dec) ==
    LET r == ReadTo254(dec, 1)
        e == FindQsEnd(dec, r.pos)
    IN  [shuffled |-> dec[1] = 128, headers |-> r.str,
         qscores |-> SubSeq(dec, r.pos + 1, (IF e = 0 THEN Len(dec) + 1 ELSE e) - 1),
         justPlus |-> IF e # 0 /\ dec[e] = 10 THEN FALSE ELSE justPlusInit,
         pos |-> IF e = 0 THEN Len(dec) ELSE e]

\* the for loop of packFQ: k records of four lines from position p.
\* [context, p]
RECURSIVE PackRecords(_, _, _, _, _)
PackRecords(hpk, qpk, f, p, k) ==
    IF k = 0 THEN [context |-> <<>>, p |-> p]
    ELSE LET hd == GetLine(f, p)
             sq == GetLine(f, hd.p)
             qs == GetLine(f, Ignore(f, sq.p, 1))
             r == PackRecords(hpk, qpk, f, qs.p, k - 1)
         IN  [context |->
                  (IF hd.good THEN PackSymbols(hpk, Tail(hd.line)) \o <<254>>
                   ELSE <<>>)
                  \o (IF sq.good THEN packSeq_3to1(sq.line) \o <<254>> ELSE <<>>)
                  \o (IF qs.good THEN PackSymbols(qpk, qs.line) \o <<254>>
                      ELSE <<>>)
                  \o r.context,
              p |-> r.p]

\* the contexts one worker alone (n_threads = 1) makes of the file from
\* position p on, block after block
RECURSIVE PackFQ(_, _, _, _, _)
PackFQ(hpk, qpk, f, p, blockLine) ==
    IF p >= EndPos(f) THEN <<>>
    ELSE LET r == PackRecords(hpk, qpk, f, p, (blockLine + 3) \div 4)
         IN  <<r.context>> \o PackFQ(hpk, qpk, f, r.p, blockLine)

\* the sequence of a FASTQ record, up to the 254 that ends it
unpackSeqFQ_3to1(text, i) == unpackSeqFA_3to1(text, i)

\* the do-while loop of unpackHSQS on the text of a chunk from position i:
\* the four lines of each record.  [ok, out]
RECURSIVE UnpackRecords(_, _, _, _, _)
UnpackRecords(hupk, qupk, plus, text, i) ==
    LET hd == UnpackSymbols(hupk, text, i)
        sq == IF hd.ok THEN unpackSeqFQ_3to1(text, hd.i + 1)
              ELSE [ok |-> FALSE, out |-> <<>>, i |-> i]
        qs == IF sq.ok THEN UnpackSymbols(qupk, text, sq.i + 1)
              ELSE [ok |-> FALSE, out |-> <<>>, i |-> i]
        plusMore == hd.out
        lines == <<64>> \o hd.out \o <<10>> \o sq.out \o <<10>>
                     \o (IF plus THEN <<43>> ELSE <<43>> \o plusMore) \o <<10>>
                     \o qs.out \o <<10>>
    IN  IF ~qs.ok THEN [ok |-> FALSE, out |-> <<>>]
        ELSE IF qs.i + 1 = Len(text) + 1 THEN [ok |-> TRUE, out |-> lines]
        ELSE IF qs.i + 1 > Len(text) THEN [ok |-> FALSE, out |-> <<>>]
        ELSE LET r == UnpackRecords(hupk, qupk, plus, text, qs.i + 1)
             IN  [ok |-> r.ok, out |-> lines \o r.out]

\* the records written for a sequence of chunks.  [ok, out]
RECURSIVE UnpackChunks(_, _, _, _)
UnpackChunks(hupk, qupk, plus, chunks) ==
    IF chunks = <<>> THEN [ok |-> TRUE, out |-> <<>>]
    ELSE LET c == UnpackRecords(hupk, qupk, plus, Head(chunks), 1)
             r == UnpackChunks(hupk, qupk, plus, Tail(chunks))
         IN  [ok |-> c.ok /\ r.ok, out |-> c.out \o r.out]

\* FASTQ inputs: records "@r", "ACG", the third line, "!!!"
FqRecord(hdr, third) ==
    <<64>> \o hdr \o <<10, 65, 67, 71, 10>> \o third \o <<10, 33, 33, 33, 10>>

\* the third lines tried: '+' alone, '+' and the header, '+' and other text;
\* and one, two and three records "@r\nA\n+\n!\n", short enough for blocks of
\* two records
FqFiles ==
    LET one == {FqRecord(<<114>>, t) : t \in {<<43>>, <<43, 114>>, <<43, 120>>}}
            \cup {FqRecord(<<114, 114>>, t) : t \in {<<43>>, <<43, 114, 114>>}}
        short == <<64, 114, 10, 65, 10, 43, 10, 33, 10>>
    IN  one \cup {a \o b : a \in one, b \in one}
            \cup {short, short \o short, short \o short \o short}

\* compressFQ on the file x with one worker, then decompressFQ on what it
\* packed: the head of the packed file, the head as it is read back, and the
\* records the unpacking of the chunks writes.  The way of the chunks through
\* the files of the threads, the packed file and the cipher is that of FASTA.
Fn_compressFQ(x, disable) ==
    /\ call = NoCall
    /\ LET f == TextFile(x)
           g == gatherHdrQs(f)
           chunks == PackFQ(PackerOf(g.headers), PackerOf(g.qscores), f, 0,
                            g.BlockLine)
           header == FqFileHeader(g.headers, g.qscores, disable,
                                  hasFQjustPlus(f))
           h == ParseFqHeader(header \o Concat([k \in 1..Len(chunks) |->
                                                   WithSize(chunks[k])]))
           u == UnpackChunks(UnpackerOf(h.headers), UnpackerOf(h.qscores),
                             h.justPlus, chunks)
       IN  call' = [fn |-> "compressFQ", x |-> x, disable |-> disable,
                    header |-> header, chunks |-> Len(chunks),
                    BlockLine |-> g.BlockLine,
                    justPlus |-> h.justPlus, ok |-> u.ok, out |-> u.out]
    /\ UNCHANGED runVars

\* FASTA files for the scan: ">h\nACG\n"; ">a>b\nAC\n", a '>' inside
\* the header; ">h\nACGTA\n", a line of bases longer than half of BLOCK_SIZE;
\* ">h\nACGTACGTACGT\n", one longer than BLOCK_SIZE; ">h\n>g\nAC\nAC\nAC\n",
\* several blocks; ">h\n", no line of bases
FaFiles ==
    { <<62, 104, 10, 65, 67, 71, 10>>,
      <<62, 97, 62, 98, 10, 65, 67, 10>>,
      <<62, 104, 10, 65, 67, 71, 84, 65, 10>>,
      <<62, 104, 10, 65, 67, 71, 84, 65, 67, 71, 84, 65, 67, 71, 84, 10>>,
      <<62, 104, 10, 62, 103, 10, 65, 67, 10, 65, 67, 10, 65, 67, 10>>,
      <<62, 104, 10>> }

\* the characters packFA hands to packHdr, line.substr(1) of every header
\* line, over the blocks of blockLine lines of the file
Handed(f, blockLine) ==
    UNION {UNION {{l[j] : j \in 2..Len(l)} :
                    l \in {GoodLines(f, b * blockLine, blockLine)[k] :
                             k \in {i \in 1..Len(GoodLines(f, b * blockLine, blockLine)) :
                                      IsHdrLine(GoodLines(f, b * blockLine, blockLine)[i])}}} :
             b \in 0..Len(f.lines)}

\* gatherHdrBs on the file x, the table compressFA builds from its headers,
\* and the characters the workers hand to the packer.  b is BlockLine; with
\* no line of bases BLOCK_SIZE is divided by zero: the process is ended
\* (b = 0) or the quotient is 0 and BlockLine 2
Fn_gatherHdrBs(x, b) ==
    /\ call = NoCall
    /\ LET f == TextFile(x)
           hdrs == GatherHeaders(f)
       IN  /\ MaxBLen(f) # 0 => b = BlockLineFA(MaxBLen(f))
           /\ MaxBLen(f) = 0 => b \in {0, 2}
           /\ call' = [fn |-> "gatherHdrBs", x |-> x, ok |-> b # 0,
                       headers |-> hdrs, maxBLen |-> MaxBLen(f),
                       BlockLine |-> b,
                       alphabet |-> PackerOf(hdrs).alphabet,
                       handed |-> IF b = 0 THEN {} ELSE Handed(f, b)]
    /\ UNCHANGED runVars

InitFn ==
    /\ Init
    /\ inFile = F_one
    /\ Len(pass) >= 8 /\ pass[1] = 112
    /\ ~disable_shuffle

\* the inputs of a call are drawn when no call is recorded
Idle(S) == IF call = NoCall THEN S ELSE {}

NextFn ==
    \/ \E x \in Idle(StringsOver(CtxBytes, MaxCtxLen)) : \E p \in Passwords :
           \E e1 \in {1, 2} : \E e2 \in {1, 48271} : Fn_shuffle(x, p, e1, e2)
    \/ \E p \in Idle(Passwords) : \E e \in EngineStates : Fn_buildKey(p, e)
    \/ \E s \in Idle(AlphabetSizes) :
           \E x \in StringsOver(SymbolsOf(s),
                                PackerOf(AlphabetOf(s)).keyLen + MaxExtra) :
               Fn_packHdr(s, x)
    \/ \E x \in Idle(StringsOver(SeqBytes, MaxSeqLen)) : Fn_packSeq(x)
    \/ \E x \in Idle(FqFiles) : \E disable \in BOOLEAN : Fn_compressFQ(x, disable)
    \/ \E x \in Idle(FaFiles) : \E b \in 0..BLOCK_SIZE : Fn_gatherHdrBs(x, b)

SpecFn == InitFn /\ [][NextFn]_vars

(***************************************************************************)
(* C17.  For every byte string x and every password, unshufflePkd of       *)
(* shufflePkd(x) with the same password is x, whatever state the engine    *)
(* is in before each of the two calls.                                     *)
(***************************************************************************)
C17_ShuffleInverse ==
    call.fn = "shufflePkd"
        => /\ call.res = call.x
           /\ Len(call.shuffled) = Len(call.x)
           /\ \A b \in CtxBytes :
                  Cardinality({k \in 1..Len(call.x) : call.shuffled[k] = b})
                      = Cardinality({k \in 1..Len(call.x) : call.x[k] = b})

\* a string the shuffle changes, put back by the unshuffle
C17_Witness ==
    /\ call.fn = "shufflePkd"
    /\ Len(call.x) >= 3
    /\ call.shuffled # call.x
    /\ call.res = call.x

(***************************************************************************)
(* C18.  buildKey and buildIV give the same key and the same IV for the    *)
(* same password whatever state the shared engine was left in before the   *)
(* call: the key and IV of a fresh process.                                *)
(***************************************************************************)
C18_KeyIVDeterministic ==
    call.fn = "buildKey"
        => /\ call.key = buildKey(1, call.pass).key
           /\ call.iv = buildIV(1, call.pass).iv
           /\ Len(call.key) = KEYLENGTH
           /\ Len(call.iv) = BLOCKSIZE

\* the key built with the engine left by a seed derivation
C18_Witness ==
    /\ call.fn = "buildKey"
    /\ call.e = un_shuffleSeedGen(1, call.pass).e
    /\ call.e # 1
    /\ Len(call.key) = KEYLENGTH


\* every byte of s is below the reserved markers 252..255
NoMarkerByte(s) == \A k \in 1..Len(s) : s[k] \in 0..251

(***************************************************************************)
(* C14.  No byte the symbol codec (any category, both bytes of a 3->2      *)
(* code) or the base codec produces as packed data is a reserved marker:   *)
(* every such byte is in 0..251.  For the base codec the codes of          *)
(* sequences of bases are looked at, without the 255 that announces a      *)
(* triplet with fewer than three bases.                                    *)
(***************************************************************************)
C14_NoReservedByte ==
    /\ call.fn = "packHdr" => NoMarkerByte(call.packed)
    /\ (call.fn = "packSeq" /\ \A k \in 1..Len(call.x) : call.x[k] \in {65, 84})
           => NoMarkerByte(SelectSeq(call.packed, LAMBDA c : c # 255))

(***************************************************************************)
(* C15.  For every alphabet of 1 to 39 characters and every string x over  *)
(* it, of any length, unpacking the packed x gives x.                      *)
(***************************************************************************)
C15_SymbolRoundTrip ==
    (call.fn = "packHdr" /\ call.s <= MAX_C5)
        => (call.res.ok /\ call.res.out = call.x)

(***************************************************************************)
(* C16.  For every string s of bytes, unpacking the sequence packSeq_3to1  *)
(* makes of s gives s.                                                     *)
(***************************************************************************)
C16_DnaRoundTrip ==
    call.fn = "packSeq" => (call.res.ok /\ call.res.out = call.x)


\* the k-th line of a byte string, <<>> when it has fewer lines
LineOf(x, k) == IF k <= Len(LinesOf(x)) THEN LinesOf(x)[k] ELSE <<>>

\* the last byte of the head of the packed FASTQ file
HeaderEnd == call.header[Len(call.header)]

(***************************************************************************)
(* C12, as stated.  The byte that ends the quality alphabet in the head of *)
(* the packed FASTQ file is 253 when the '+' line of the input repeats the *)
(* header and '\n' when the '+' line is '+' alone.                         *)
(***************************************************************************)
C12_EndByteAsStated ==
    call.fn = "compressFQ" =>
        /\ LineOf(call.x, 3) = <<43>> \o Tail(LineOf(call.x, 1))
               => HeaderEnd = 253
        /\ LineOf(call.x, 3) = <<43>> => HeaderEnd = 10

(***************************************************************************)
(* C12, amended.  The byte that ends the quality alphabet is 253 when the  *)
(* third line of the input is '+' alone (at most one character) and '\n'   *)
(* when it is longer, as when it repeats the header.                       *)
(***************************************************************************)
C12_EndByte ==
    call.fn = "compressFQ" =>
        HeaderEnd = IF Len(LineOf(call.x, 3)) <= 1 THEN 253 ELSE 10

C12_Witness ==
    /\ call.fn = "compressFQ"
    /\ LineOf(call.x, 3) = <<43>> \o Tail(LineOf(call.x, 1))
    /\ HeaderEnd = 10
    /\ ~call.justPlus

\* the third lines of the records of a byte string
ThirdLines(x) ==
    LET ls == LinesOf(x)
    IN  [k \in 1..(Len(ls) \div 4) |-> ls[4 * k - 1]]

(***************************************************************************)
(* C13.  Decompaction writes the third line of every record as '+' alone   *)
(* when the third line of the original file has at most one character and  *)
(* as '+' and the header of that record otherwise, and what it writes is   *)
(* the original '+' line of every record.                                  *)
(***************************************************************************)
C13_PlusLines ==
    (call.fn = "compressFQ" /\ call.ok)
        => ThirdLines(call.out) = ThirdLines(call.x)


(***************************************************************************)
(* C19.  An unpacking worker unshuffles a chunk if and only if the shuffle *)
(* byte of the head of the decrypted file is 128, the byte the compactor   *)
(* writes when it shuffles (129 when it does not), whatever the option -s  *)
(* of the decompaction run is.                                             *)
(***************************************************************************)
C19_UnshuffleByHeader ==
    [][\A t \in Threads :
          (d_flag /\ wpc[t] = "upeek" /\ wpc'[t] \in {"ulock", "unpack"})
              => /\ Len(decFile) >= 2
                 /\ decFile[2] \in {128, 129}
                 /\ wpc'[t] = "ulock" <=> decFile[2] = 128]_vars

\* a shuffled file is decompacted in a run with -s: a worker has unshuffled
\* a chunk and the run gives the input back
C19_Witness ==
    /\ d_flag /\ Intact /\ disable_shuffle
    /\ pc = "exited" /\ exitCode = 0
    /\ shuffled
    /\ decFile = Absent
    /\ stdout = inFile


\* none of the temporary files exists
NoTempFile ==
    /\ pckdFile = Absent
    /\ decFile = Absent
    /\ \A t \in Threads : pkFile[t] = Absent /\ upkFile[t] = Absent

(***************************************************************************)
(* C20.  When a compaction or a decompaction has run to its end and main   *)
(* is about to return 0, and after it has returned, none of the temporary  *)
(* files remains: the packed files of the threads, the assembled packed    *)
(* file, the decrypted file and the unpacked files of the threads have     *)
(* been deleted.                                                           *)
(***************************************************************************)
C20_NoTempFiles ==
    /\ pc = "return" => NoTempFile
    /\ (pc = "exited" /\ exitCode = 0 /\ ~d_flag /\ outs[n_threads] # Absent)
           => NoTempFile
    /\ (pc = "exited" /\ exitCode = 0 /\ d_flag /\ stdout # <<>> /\ Intact
           /\ stdout = inFile)
           => NoTempFile

\* a decompaction with several workers has written the input back
C20_Witness ==
    /\ d_flag /\ Intact
    /\ pc = "exited" /\ exitCode = 0
    /\ n_threads >= 2
    /\ stdout = inFile
    /\ Len(LinesOf(inFile)) >= 4
    /\ NoTempFile


\* every line of the input, the unterminated last one included
AllLines(f) == f.lines \o (IF f.rest = <<>> THEN <<>> ELSE <<f.rest>>)

\* the lines of block b: the lines [b * BlockLine, (b + 1) * BlockLine)
BlockOf(f, b) ==
    SubSeq(AllLines(f), b * BlockLine + 1,
           Min((b + 1) * BlockLine, Len(AllLines(f))))

\* a worker t that packs a block now
PacksBlock(t) ==
    ~d_flag /\ pc = "join" /\ wpc[t] = "peek" /\ wpc'[t] \in {"lock", "write"}

(***************************************************************************)
(* C21.  In a compaction with N workers, worker t packs the blocks b with  *)
(* b mod N = t and no other, block b being the input lines from            *)
(* b * BlockLine up to (b + 1) * BlockLine: what it packs in one turn is   *)
(* all the lines of one such block, so that every line of the input is     *)
(* packed once, by one worker.                                             *)
(***************************************************************************)
C21_BlockStriping ==
    [][\A t \in Threads :
          PacksBlock(t) =>
              \E b \in 0..Len(AllLines(TextFile(inFile))) :
                  /\ b % n_threads = t
                  /\ wpos[t] = b * BlockLine
                  /\ wctx'[t] = PackLines(PackerOf(headers),
                                          BlockOf(TextFile(inFile), b), 1,
                                          <<>>, <<>>)
                  /\ wpos'[t] = Min((b + 1) * BlockLine,
                                    Len(AllLines(TextFile(inFile))))]_vars


\* the chunks (size and context) a worker t has written to its file, from
\* position p on, found by their sizes
RECURSIVE ChunksOf(_, _, _)
ChunksOf(text, t, p) ==
    IF p >= Len(text) THEN <<>>
    ELSE LET beg == p + Len(ThrLine(t))
             r == ReadTo254(text, beg + 1)
             end == r.pos + stoull(r.str)
         IN  <<SubSeq(text, beg + 1, end)>> \o ChunksOf(text, t, end + 1)

\* the chunks of the files of n workers in the order of the blocks: block b
\* is chunk b \div n of worker b mod n
ChunksInOrder(files, n) ==
    LET cs == [t \in 0..(n - 1) |-> ChunksOf(files[t], t, 0)]
        total == LET RECURSIVE Sum(_)
                     Sum(t) == IF t = n THEN 0 ELSE Len(cs[t]) + Sum(t + 1)
                 IN  Sum(0)
    IN  Concat([b \in 1..total |-> cs[(b - 1) % n][((b - 1) \div n) + 1]])

(***************************************************************************)
(* C22.  When the workers are joined, the merge of compressFA over the     *)
(* files of the threads writes the chunks in the order of the blocks       *)
(* (block 0, 1, 2, ...), the bytes of each chunk together and unchanged,   *)
(* for every number of threads and of blocks.                              *)
(***************************************************************************)
C22_MergeInOrder ==
    [][(~d_flag /\ pc = "assemble" /\ pc' = "encrypt")
          => pckdFile' = FileHeader(headers, disable_shuffle)
                             \o ChunksInOrder(pkFile, n_threads) \o <<252>>]_vars


\* the chunks of a packed file from position p on, each [beg, size] with beg
\* the position of the 254 after its size: one chunk follows the other until
\* the byte that comes next is not 253
RECURSIVE StreamChunks(_, _)
StreamChunks(dec, p) ==
    IF p >= Len(dec) \/ dec[p + 1] # 253 THEN <<>>
    ELSE LET r == ReadTo254(dec, p + 1)
         IN  IF r.fail \/ ~IsDigits(r.str) THEN <<>>
             ELSE <<[beg |-> r.pos, size |-> stoull(r.str)]>>
                      \o StreamChunks(dec, r.pos + stoull(r.str))

\* the chunks of the decrypted file
DecChunks == StreamChunks(decFile, ParseFileHeader(decFile).pos)

\* the number of chunks worker t has unpacked: the thread-id lines of its file
UnpackedBy(t) ==
    IF upkFile[t] = Absent THEN 0
    ELSE Cardinality({k \in 1..Len(LinesOf(upkFile[t])) :
                         LinesOf(upkFile[t])[k] = THR_ID_HDR \o to_string(t)})

\* a worker t that takes a chunk of the decrypted file now
TakesChunk(t) ==
    d_flag /\ pc = "join" /\ wpc[t] = "upeek" /\ wpc'[t] \in {"ulock", "unpack"}

(***************************************************************************)
(* C23.  In a decompaction with N workers, worker t unpacks the chunks k   *)
(* with k mod N = t and no other, one after the other and each once: the   *)
(* j-th chunk it takes is chunk t + j N of the stream and what it reads of *)
(* the file into its text are the bytes of that chunk; when the workers    *)
(* have ended no chunk of the stream is left.                              *)
(***************************************************************************)
C23_ChunkStriping ==
    [][/\ \A t \in Threads :
             TakesChunk(t) =>
                 LET k == t + UnpackedBy(t) * n_threads
                 IN  /\ k < Len(DecChunks)
                     /\ win[t].beg = DecChunks[k + 1].beg
                     /\ win[t].size = DecChunks[k + 1].size
                     /\ LET end == Min(win[t].beg + win[t].size, Len(decFile))
                        IN  SubSeq(wctx'[t], 1, end - win[t].beg)
                                = SubSeq(decFile, win[t].beg + 1, end)
       /\ (d_flag /\ pc = "join" /\ pc' = "merge")
              => \A k \in 0..(Len(DecChunks) - 1) :
                     UnpackedBy(k % n_threads) > k \div n_threads]_vars

\* the first worker of two takes its second chunk, the third of the stream
C23_Witness ==
    /\ d_flag /\ Intact /\ pc = "join"
    /\ n_threads = 2
    /\ Len(DecChunks) = 3
    /\ wpc[0] \in {"ulock", "unpack"}
    /\ UnpackedBy(0) = 1
    /\ win[0].beg = DecChunks[3].beg


\* worker t takes the step in which it writes shufflingInProgress, the
\* state of the engine (my_srand, my_rand) or seed_shared
WritesShared(t) ==
    /\ pc = "join"
    /\ wpc[t] \in {"flag", "uflag", "rand", "store"}
    /\ wpc'[t] # wpc[t]

(***************************************************************************)
(* C24.  Every write of a worker to the state the workers share (the flag  *)
(* shufflingInProgress, the state of the random engine, seed_shared) is    *)
(* done while that worker holds the mutex mutx.                            *)
(***************************************************************************)
C24_WritesUnderMutex ==
    [][\A t \in Threads : WritesShared(t) => mutx = t]_vars


\* the seed the password gives, whatever the engine held before
SeedOf(pwd) == un_shuffleSeedGen(1, pwd).seed

\* worker t shuffles, or unshuffles, the chunk it holds now
ShufflesChunk(t) ==
    pc = "join" /\ wpc[t] = "shuffle" /\ wpc'[t] \in {"write", "unpack"}

(***************************************************************************)
(* C25.  Every chunk, in every worker and under every interleaving of the  *)
(* workers, is shuffled with the same seed, which the password alone       *)
(* determines; so two chunks of the same length are permuted alike.        *)
(***************************************************************************)
C25_SameSeed ==
    [][\A t \in Threads :
          ShufflesChunk(t) =>
              /\ seed_shared = SeedOf(pass)
              /\ \A e \in EngineStates :
                     un_shuffleSeedGen(e, pass).seed = seed_shared
              /\ wctx'[t] = IF d_flag THEN unshufflePkd(wctx[t], SeedOf(pass))
                            ELSE shufflePkd(wctx[t], SeedOf(pass))]_vars

\* the first of several workers has shuffled its second chunk while another
\* worker is in un_shuffleSeedGen or about to shuffle
C25_Witness ==
    /\ ~d_flag /\ pc = "join" /\ n_threads >= 2
    /\ wpc[0] = "write"
    /\ pkFile[0] # Absent /\ pkFile[0] # <<>>
    /\ Len(wctx[0]) >= 2
    /\ \E t \in 1..(MaxThreads - 1) : wpc[t] \in {"rand", "store", "shuffle"}
    /\ seed_shared = SeedOf(pass)
    /\ engine # 1


\* a worker thread is running
WorkerRunning == \E t \in Threads : wpc[t] \notin {"none", "done"}

\* a step that writes to cout, or in which bytes reach standard output
WritesOutput == Len(coutBuf') > Len(coutBuf) \/ Len(stdout') > Len(stdout)

(***************************************************************************)
(* C26.  No byte is written to standard output while a worker thread is    *)
(* running, in compaction and in decompaction: cout is written by the main *)
(* thread only, after it has joined the workers.  (A worker that runs      *)
(* into undefined behaviour ends the process; nothing is said of what the  *)
(* process does then.)                                                     *)
(***************************************************************************)
C26_OutputAfterJoin ==
    [][(WritesOutput /\ ~(pc = "join" /\ pc' = "exited"))
          => ~WorkerRunning]_vars

\* the main thread of a decompaction with several workers, all of them
\* ended, has written the lines to cout
C26_Witness ==
    /\ d_flag /\ pc = "return" /\ n_threads >= 2
    /\ \A t \in 0..(n_threads - 1) : wpc[t] = "done"
    /\ stdout \o coutBuf = inFile


(***************************************************************************)
(* C27.  In verbose mode the line "Shuffling..." (in decompaction          *)
(* "Unshuffling...") is written at most once in a run, whatever the number *)
(* of workers and of chunks and the interleaving of the workers.           *)
(***************************************************************************)
C27_MessageOnce == shufflingMsgs <= 1

\* several workers, each past the flag with a chunk of its own, one line
C27_Witness ==
    /\ pc = "join" /\ n_threads >= 2
    /\ shufflingMsgs = 1
    /\ Cardinality({t \in Threads :
                       wpc[t] \in {"seedGen", "rand", "store", "shuffle"}}) >= 2


\* the size table: packer, symbols per key and bytes per key for n characters
SizeTable(n) ==
    IF n = 1 THEN [name |-> "pack_1to1", keyLen |-> 1, bytes |-> 1]
    ELSE IF n = 2 THEN [name |-> "pack_7to1", keyLen |-> 7, bytes |-> 1]
    ELSE IF n = 3 THEN [name |-> "pack_5to1", keyLen |-> 5, bytes |-> 1]
    ELSE IF n \in {4, 5, 6} THEN [name |-> "pack_3to1", keyLen |-> 3, bytes |-> 1]
    ELSE IF n \in 7..15 THEN [name |-> "pack_2to1", keyLen |-> 2, bytes |-> 1]
    ELSE IF n \in 16..39 THEN [name |-> "pack_3to2", keyLen |-> 3, bytes |-> 2]
    ELSE [name |-> "packLargeHdr_3to2", keyLen |-> 3, bytes |-> 2]

\* the packer compressFA chooses for n characters, as a row of the table
ChosenFor(n) ==
    LET pk == PackerOf(AlphabetOf(n))
    IN  [name |-> pk.name, keyLen |-> pk.keyLen, bytes |-> pk.bytes]

(***************************************************************************)
(* C28.  For every number n >= 1 of different characters the packer chosen *)
(* is the one of the size table: 1->1 for 1, 7->1 for 2, 5->1 for 3, 3->1  *)
(* for 4 to 6, 2->1 for 7 to 15, 3->2 for 16 to 39 and the large 3->2      *)
(* above 39; the packer a call packs its string with is that one.  The     *)
(* sizes are those of the printable characters 32..126.                    *)
(***************************************************************************)
C28_SizeTable ==
    /\ \A n \in 1..(126 - 32 + 1) : ChosenFor(n) = SizeTable(n)
    /\ call.fn = "packHdr"
           => /\ call.name = SizeTable(call.s).name
              /\ call.keyLen = SizeTable(call.s).keyLen
              /\ call.bytes = SizeTable(call.s).bytes
              /\ Len(call.packed) >= (Len(call.x) \div call.keyLen) * call.bytes

\* a string of a whole key and more packed with the large packer
C28_Witness ==
    /\ call.fn = "packHdr"
    /\ call.s = 40
    /\ call.name = "packLargeHdr_3to2"
    /\ Len(call.x) > call.keyLen
    /\ Len(call.packed) >= 2


\* the characters of a string
RangeOf(str) == {str[k] : k \in 1..Len(str)}

(***************************************************************************)
(* C29.  The header alphabet of the scan holds every visible character     *)
(* that occurs in a header after the leading '>', so every character a     *)
(* worker hands to the header packer is in the alphabet the pack map was   *)
(* built from, in every chunk.                                             *)
(***************************************************************************)
C29_HandedInAlphabet ==
    (call.fn = "gatherHdrBs" /\ call.ok)
        => /\ call.handed \cap (32..126) \subseteq RangeOf(call.headers)
           /\ call.handed \subseteq RangeOf(call.alphabet)

(***************************************************************************)
(* C30.  BlockLine as the scan computes it is at least 2 for every FASTA   *)
(* input and at least 4 for every FASTQ input.                             *)
(***************************************************************************)
C30_BlockLineFloor ==
    /\ (call.fn = "gatherHdrBs" /\ call.ok) => call.BlockLine >= 2
    /\ call.fn = "compressFQ" => call.BlockLine >= 4


\* the lines of the block worker t reads next, and the line after them
NextBlock(t) == GoodLines(TextFile(inFile), wpos[t], BlockLine)
LineAfterBlock(t) ==
    LET f == TextFile(inFile)
        k == wpos[t] + Len(NextBlock(t)) + 1
    IN  IF k <= Len(f.lines) THEN <<f.lines[k]>> ELSE <<>>

\* C31 as stated: a block that is packed begins with a header line and the
\* line after it, when there is one, is a header line
C31_WholeRecords ==
    [][\A t \in Threads : PacksBlock(t) =>
          /\ IsHdrLine(NextBlock(t)[1])
          /\ LineAfterBlock(t) # <<>> => IsHdrLine(LineAfterBlock(t)[1])]_vars

(***************************************************************************)
(* C31.  Every block a packing worker packs is a window of BlockLine       *)
(* consecutive whole lines of the input (fewer at the end of the input),   *)
(* block b beginning at line b * BlockLine; a FASTA record may be cut      *)
(* between two of its lines.                                               *)
(***************************************************************************)
C31_WholeLines ==
    [][\A t \in Threads : PacksBlock(t) =>
          LET lines == TextFile(inFile).lines IN
          \E b \in 0..Len(lines) :
              /\ b % n_threads = t
              /\ wpos[t] = b * BlockLine
              /\ wctx'[t] = PackLines(PackerOf(headers),
                                      SubSeq(lines, b * BlockLine + 1,
                                             Min((b + 1) * BlockLine, Len(lines))),
                                      1, <<>>, <<>>)]_vars

\* worker 1 has packed the block "ACG", ">h" that begins inside a record
C31_Witness ==
    /\ ~d_flag /\ pc = "join" /\ inFile = F_blocks /\ n_threads = 2
    /\ wpc[1] \in {"lock", "write"}
    /\ wctx[1] = PackLines(PackerOf(headers), <<<<65, 67, 71>>, <<62, 104>>>>,
                           1, <<>>, <<>>)


\* the sum over the characters of the password, from the last to the first,
\* of two draws r1, r2 each: pass[i] * (r1 + r2) as stated, or
\* pass[i] * r1 + r2; e is the state of the engine before the draws
RECURSIVE SumOfDraws(_, _, _, _)
SumOfDraws(pwd, i, e, stated) ==
    IF i = 0 THEN 0
    ELSE LET r1 == my_rand(EngineNext(e)) % U64
             r2 == my_rand(EngineNext(EngineNext(e))) % U64
         IN  ((IF stated THEN pwd[i] * (r1 + r2) ELSE pwd[i] * r1 + r2)
                 + SumOfDraws(pwd, i - 1, EngineNext(EngineNext(e)), stated)) % U64

\* the seed after my_srand(c1 * f + c2), reduced modulo 2^32 - 1
SeedFrom(pwd, c1, f, c2, stated) ==
    SumOfDraws(pwd, Len(pwd), my_srand(1, (c1 * f + c2) % U32), stated)
        % (U32 - 1)

\* the key and the IV drawn from the seeds of the two formulas
KeyFromSeed(pwd, stated) ==
    DrawBytes(my_srand(1, SeedFrom(pwd, 24593, pwd[1] * pwd[3], 49157, stated)),
              KEYLENGTH)
IVFromSeed(pwd, stated) ==
    DrawBytes(my_srand(1, SeedFrom(pwd, 7919, pwd[3] * pwd[6], 75653, stated)),
              BLOCKSIZE)

\* C32 as stated: the seeds are the sums of password[i] * (rand() + rand())
C32_SeedAsStated ==
    call.fn = "buildKey"
        => /\ call.key = KeyFromSeed(call.pass, TRUE)
           /\ call.iv = IVFromSeed(call.pass, TRUE)

(***************************************************************************)
(* C32.  The seed of the key (of the IV) is the sum over the characters i  *)
(* of the password of password[i] * rand() + rand(), modulo 2^32 - 1,      *)
(* drawn after srand(C1 * f + C2) with 24593, 49157 and                    *)
(* f = password[0] * password[2] for the key, and 7919, 75653 and          *)
(* f = password[2] * password[5] for the IV.                               *)
(***************************************************************************)
C32_SeedAsComputed ==
    call.fn = "buildKey"
        => /\ call.key = KeyFromSeed(call.pass, FALSE)
           /\ call.iv = IVFromSeed(call.pass, FALSE)

\* a key and an IV that the two formulas tell apart
C32_Witness ==
    /\ call.fn = "buildKey"
    /\ call.e # 1
    /\ call.key # KeyFromSeed(call.pass, TRUE)
    /\ call.iv # IVFromSeed(call.pass, TRUE)
    /\ call.key # call.iv


\* the routine of decompaction that reads what a packer wrote
UnpackRoutineFor(packer) ==
    IF packer = "packLargeHdr_3to2" THEN "unpackLarge_read2B"
    ELSE IF packer = "pack_3to2" THEN "unpack_read2B"
    ELSE "unpack_read1B"

\* packer and unpacker of an alphabet agree
Matches(alphabet) ==
    LET pk == PackerOf(alphabet)
        up == UnpackerOf(alphabet)
        n == Len(alphabet)
    IN  /\ up.keyLen = pk.keyLen
        /\ up.bytes = pk.bytes
        /\ up.name = UnpackRoutineFor(pk.name)
        /\ up.alphabet = pk.alphabet
        /\ n > 39 =>
              /\ Len(up.alphabet) = 39 + 1
              /\ SubSeq(up.alphabet, 1, 39) = SubSeq(alphabet, n - 39 + 1, n)
              /\ up.alphabet[39 + 1] = alphabet[n] + 1
              /\ up.alphabet[39 + 1] \notin RangeOf(alphabet)

(***************************************************************************)
(* C33.  For every size of the alphabet the decompaction chooses the key   *)
(* length and the routine (1-byte read, 2-byte read, 2-byte large) of the  *)
(* packer the compaction chose; above 39 characters both take the last 39  *)
(* characters of the sorted alphabet and the character after the largest   *)
(* one, which is not in the alphabet, as the escape.  What is packed in    *)
(* whole keys is unpacked to what it was.                                  *)
(***************************************************************************)
C33_UnpackerMatches ==
    /\ \A n \in 1..(126 - 32 + 1) : Matches(AlphabetOf(n))
    /\ (call.fn = "packHdr" /\ Len(call.x) % call.keyLen = 0)
           => /\ Matches(AlphabetOf(call.s))
              /\ call.res.out = call.x

\* a whole key with a character outside the last 39, packed by the large
\* packer and unpacked
C33_Witness ==
    /\ call.fn = "packHdr"
    /\ call.s = 40
    /\ Len(call.x) = call.keyLen
    /\ AlphabetOf(40)[1] \in RangeOf(call.x)
    /\ Len(call.packed) > call.bytes


(***************************************************************************)
(* C34.  The merge of the files of the threads keeps their content: every  *)
(* chunk a worker wrote to its file after a thread-id line is in the       *)
(* packed file whole, also when one of its lines is equal to the           *)
(* thread-id line of the worker.                                           *)
(***************************************************************************)
C34_MergeKeepsLines ==
    [][(~d_flag /\ pc = "assemble" /\ pc' = "encrypt")
          => \A t \in 0..(n_threads - 1) :
                 pkFile[t] # Absent
                     => \A k \in 1..Len(ChunksOf(pkFile[t], t, 0)) :
                            Contains(pckdFile', ChunksOf(pkFile[t], t, 0)[k])]_vars


\* worker t writes its chunk to its file
WritesChunk(t) ==
    ~d_flag /\ pc = "join" /\ wpc[t] = "write" /\ wpc'[t] = "peek"

(***************************************************************************)
(* C35.  Every chunk a packing worker writes has a declared length of at   *)
(* least 1, for every input, also one whose last line is not ended by a    *)
(* line feed: the file of the worker grows by the thread-id line and a     *)
(* sized context that is not empty.                                        *)
(***************************************************************************)
C35_ChunkNotEmpty ==
    [][\A t \in Threads : WritesChunk(t) =>
          /\ Len(wctx[t]) >= 1
          /\ pkFile'[t] # pkFile[t] \o ThrLine(t) \o <<253, 48, 254, 10>>]_vars


(***************************************************************************)
(* C36.  Every unpacking worker ends on every stream a compaction wrote:   *)
(* no step of a worker leaves the stream or the text of its chunk, and     *)
(* when the loop of a worker is left the stream has not failed and the     *)
(* read position is the end of the file, behind the final 252.             *)
(***************************************************************************)
C36_WorkerEnds ==
    [][(d_flag /\ Intact /\ pc = "join")
          => /\ pc' \in {"join", "merge"}
             /\ \A t \in Threads :
                    (wpc[t] = "upeek" /\ wpc'[t] = "done")
                        => /\ ~win[t].fail
                           /\ win[t].pos = Len(decFile)
                           /\ decFile[Len(decFile)] = 252]_vars


\* the read positions in the files of the threads when the loop of the
\* merge is left: rounds over the files until file 0 is at its end
RECURSIVE JoinEnd(_, _, _, _, _)
JoinEnd(files, n, t, pos, eof0) ==
    IF t = n
    THEN IF eof0 THEN pos ELSE JoinEnd(files, n, 0, pos, eof0)
    ELSE LET r == IF files[t] = Absent
                  THEN [p |-> 0, eof |-> FALSE]
                  ELSE JoinPart(TextFile(files[t]), t, pos[t], <<>>, FALSE)
         IN  JoinEnd(files, n, t + 1, [pos EXCEPT ![t] = r.p],
                     IF t = 0 THEN r.eof ELSE eof0)

\* every file of the n threads is read to its end when the merge is left
ReadToEnd(files, n) ==
    /\ files[0] # Absent
    /\ \A t \in 0..(n - 1) :
           files[t] # Absent
               => JoinEnd(files, n, 0, [u \in 0..(n - 1) |-> 0], FALSE)[t]
                      = EndPos(TextFile(files[t]))

(***************************************************************************)
(* C37.  The loop that merges the files of the threads, which runs until   *)
(* the file of thread 0 is at its end, ends, and when it ends the file of  *)
(* every other thread has been read to its end too: no chunk a worker      *)
(* wrote is left out.                                                      *)
(***************************************************************************)
C37_MergeComplete ==
    [][/\ (~d_flag /\ pc = "assemble" /\ pc' = "encrypt")
             => ReadToEnd(pkFile, n_threads)
       /\ (d_flag /\ pc = "merge")
             => /\ pc' = "return"
                /\ ReadToEnd(upkFile, n_threads)]_vars


\* the number of records of four lines in the bytes of a FASTQ file
RecordsIn(x) == Cardinality({k \in 1..Len(x) : x[k] = 10}) \div 4

(***************************************************************************)
(* C38.  For FASTQ input BlockLine is a positive multiple of 4, so the     *)
(* loop of packFQ over the records of a block (l += 4 until l is           *)
(* BlockLine) ends and every block is made of whole records: the records   *)
(* of the file fill BlockLine / 4 records per chunk.                       *)
(***************************************************************************)
C38_BlockLineMultiple ==
    call.fn = "compressFQ"
        => /\ call.BlockLine > 0
           /\ call.BlockLine % 4 = 0
           /\ call.chunks = (RecordsIn(call.x) + (call.BlockLine \div 4) - 1)
                                \div (call.BlockLine \div 4)

\* three records in blocks of two
C38_Witness ==
    /\ call.fn = "compressFQ"
    /\ call.BlockLine = 8
    /\ RecordsIn(call.x) = 3
    /\ call.chunks = 2


(***************************************************************************)
(* A compaction started in a directory where an earlier run, ended from    *)
(* outside after its worker had written and before compressFA removed the  *)
(* per-thread files, left the file of thread 0 behind.                     *)
(***************************************************************************)
\* the file of thread 0 of a run with -s on F_one that was ended before the
\* files were joined and removed
LeftBehind ==
    LET f == TextFile(F_one)
    IN  [t \in Threads |->
            IF t = 0
            THEN PkRecord(0, PackBlock(PackerOf(GatherHeaders(f)), f, 0,
                                       BlockLineFA(MaxBLen(f))))
            ELSE Absent]

\* the state after construction when these files exist
InitStale ==
    /\ inFile \in Files
    /\ pass \in Passwords
    /\ disable_shuffle \in BOOLEAN
    /\ d_flag = FALSE
    /\ n_threads = 1
    /\ pc = "idle"
    /\ exitCode = -1
    /\ coutBuf = <<>>
    /\ stdout = <<>>
    /\ cryFile = <<>>
    /\ pckdFile = Absent
    /\ decFile = Absent
    /\ pkFile = LeftBehind
    /\ upkFile = [t \in Threads |-> Absent]
    /\ headers = <<>>
    /\ BlockLine = 0
    /\ shuffled = FALSE
    /\ wpc = [t \in Threads |-> "none"]
    /\ wpos = [t \in Threads |-> 0]
    /\ win = [t \in Threads |-> NoStream]
    /\ wctx = [t \in Threads |-> <<>>]
    /\ wseed = [t \in Threads |-> 0]
    /\ mutx = -1
    /\ shufflingInProgress = TRUE
    /\ shufflingMsgs = 0
    /\ engine = 1
    /\ seed_shared = 0
    /\ keyBuilt = FALSE
    /\ outs = [n \in 1..MaxThreads |-> Absent]
    /\ call = NoCall

SpecStale == InitStale /\ [][Next]_vars

\* the inputs on which the joining loses or cuts a chunk (C34) or a worker
\* writes an empty chunk (C35) are left aside
OwnChunksInput == inFile \notin {F_thr, F_thr1, F_tail}

(***************************************************************************)
(* C39.  The packed stream of a compaction holds the chunks of that run     *)
(* and no other: after the file header come exactly the contexts of the    *)
(* blocks of the input, in the order of the blocks, also when per-thread   *)
(* files of an earlier run exist when the workers open them.               *)
(***************************************************************************)
C39_OnlyOwnChunks ==
    [][(~d_flag /\ pc = "assemble" /\ pc' = "encrypt" /\ OwnChunksInput)
          => LET cs == StreamChunks(pckdFile',
                                    Len(FileHeader(headers, disable_shuffle)))
             IN  /\ Len(cs) = SeqBlocks
                 /\ \A k \in 1..Len(cs) :
                        /\ cs[k].beg + cs[k].size <= Len(pckdFile')
                        /\ SubSeq(pckdFile', cs[k].beg + 1, cs[k].beg + cs[k].size)
                               = SeqContext(k - 1)]_vars

====
